---- MODULE Spec2Model ----
(***************************************************************************)
(* Frame scheduler and swapchain resource lifecycle of RendererVulkan.     *)
(*                                                                         *)
(* The CPU thread runs render() step by step (pc is its position); the GPU *)
(* runs concurrently and completes submitted command buffers in queue      *)
(* order.  Vulkan handles are modelled by the generation in which they     *)
(* were created: generation 1 is init(), every call of recreateSwapChain() *)
(* starts a new generation.  0 is VK_NULL_HANDLE.  `live` is the set of    *)
(* <<kind, generation>> objects created and not yet destroyed.             *)
(***************************************************************************)
EXTENDS Integers, Sequences, FiniteSets, TLC

VARIABLES
    pc,                         \* position of the CPU thread inside render()
    currentFrame,               \* RendererVulkan::currentFrame
    result,                     \* render(): VkResult result
    imageIndex,                 \* render(): uint32_t imageIndex
    inFlightFences,             \* slot -> fence is signaled
    imageAvailableSemaphores,   \* slot -> semaphore has a pending signal
    renderFinishedSemaphores,   \* slot -> signaled, present not yet issued
    commandBuffers,             \* slot -> what the command buffer holds
    gpuQueue,                   \* slots submitted to the graphics queue, unfinished
    uniformBuffersMapped,       \* slot -> aspect ratio last written (<<num, den>>)
    skyboxUniformBuffersMapped, \* the same for skyboxData_.uniformBuffersMapped
    acquired,                   \* images of the held swapchain owned by the app
    swapChainExtent,            \* vulkanContext_.swapChainExtent
    currentTransform,           \* vulkanContext_.currentTransform
    swapChain,                  \* vulkanContext_.swapChain
    swapChainImageViews,        \* vulkanContext_.swapChainImageViews (all N)
    renderPass,                 \* vulkanContext_.renderPass
    swapChainFramebuffers,      \* vulkanContext_.swapChainFramebuffers (all N)
    graphicsPipeline,           \* RendererVulkan::graphicsPipeline
    pipelineLayout,             \* RendererVulkan::pipelineLayout
    clearColorData,             \* RendererVulkan::clearColorData_
    skyboxData,                 \* RendererVulkan::skyboxData_
    live,                       \* objects created and not destroyed
    generation,                 \* 1 + number of recreateSwapChain() calls so far
    oldSwapChain,               \* oldSwapchain of the last vkCreateSwapchainKHR call
    builtWith,                  \* imageExtent of the held swapchain, width and height
                                \* of the held framebuffers
    assets,                     \* what the asset loaders return (fixed per run)
    renderObjects,              \* RendererVulkan::renderObjects
    teardown,                   \* destroy calls of the last teardown, in order
    gameObjects,                \* scene_->getGameObjects(), by renderer component
    descriptorPool,             \* capacity of descriptorPool and what is allocated
    uniformModels,              \* slot -> {<<table entry written, drawable>>}
    queueFamilies,              \* the physical device's queue families, in order
    graphicsFamily,             \* init(): int graphicsFamily
    presentFamily,              \* init(): int presentFamily
    swapChainCreateInfo,        \* sharing fields of the last swapChainCreateInfo
    capabilities,               \* recreateSwapChain(): VkSurfaceCapabilitiesKHR
                                \* capabilities, as queried and then as corrected
    window,                     \* recreateSwapChain(): windowWidth, windowHeight
    textures_,                  \* ResourcePool::textures_
    buffers_,                   \* ResourcePool::buffers_
    issued                      \* the handles the pool has returned, each with the
                                \* kind and the pointer it was allocated for

frameVars == <<pc, currentFrame, result, imageIndex, inFlightFences,
               imageAvailableSemaphores, renderFinishedSemaphores,
               commandBuffers, gpuQueue, uniformBuffersMapped,
               skyboxUniformBuffersMapped, acquired>>
swapVars  == <<swapChainExtent, currentTransform, swapChain, swapChainImageViews,
               renderPass, swapChainFramebuffers, graphicsPipeline, pipelineLayout,
               clearColorData, skyboxData, live, generation, oldSwapChain,
               builtWith, capabilities, window>>
sceneVars == <<assets, gameObjects, descriptorPool, uniformModels>>
deviceVars == <<queueFamilies, graphicsFamily, presentFamily,
                swapChainCreateInfo>>
poolVars  == <<textures_, buffers_, issued>>
vars      == <<frameVars, swapVars, sceneVars, deviceVars, poolVars,
               renderObjects, teardown>>

---------------------------------------------------------------------------
(* Program constants and bounds *)

MAX_FRAMES_IN_FLIGHT == 2
VK_NULL_HANDLE == 0
\* value of a member that has no initializer and was never assigned
Indeterminate == -1
\* skyboxIndex when the scene has no skybox drawable (drawables count from 1)
SIZE_MAX == 0

\* number of recreateSwapChain() calls explored
MaxRebuilds == 2
\* number of images of a swapchain (capabilities.minImageCount + 1)
ImageCount == 2
\* longest scene explored
MaxObjects == 3
\* longest list of queue families explored
MaxFamilies == 3

Slots  == 0 .. (MAX_FRAMES_IN_FLIGHT - 1)
Images == 0 .. (ImageCount - 1)

Extent(w, h) == [width |-> w, height |-> h]
\* extents the surface / the native window can report
Extents == {Extent(0, 0), Extent(1080, 1920), Extent(1920, 1080)}
ValidExtents == {e \in Extents : e.width # 0 /\ e.height # 0}
Transforms == {"IDENTITY", "ROTATE_90", "ROTATE_270"}

AcquireResults == {"VK_SUCCESS", "VK_SUBOPTIMAL_KHR", "VK_ERROR_OUT_OF_DATE_KHR",
                   "VK_ERROR_SURFACE_LOST_KHR"}
PresentResults == AcquireResults
CreateResults  == {"VK_SUCCESS", "VK_ERROR_INITIALIZATION_FAILED"}

\* the asset loaders' answers: shader files present, and the skybox drawable
\* ("none": cubemap failed to load, no skybox drawable; "valid": drawable with a
\* cubemap image view; "noview": drawable whose cubemap has a null image view)
Assets(main, clear, sky, skybox) ==
    [mainShader |-> main, clearShader |-> clear, skyboxShader |-> sky,
     skybox |-> skybox]
AssetSets == {Assets(TRUE, TRUE, TRUE, "valid"), Assets(TRUE, TRUE, TRUE, "none"),
              Assets(TRUE, TRUE, TRUE, "noview"), Assets(FALSE, TRUE, TRUE, "valid"),
              Assets(TRUE, FALSE, TRUE, "noview"), Assets(TRUE, TRUE, FALSE, "valid")}

---------------------------------------------------------------------------
(* Pure helpers *)

Handle(kind, g) == <<kind, g>>

\* objects a record of handles contributes to `live`
LiveOf(kind, h) == IF h > VK_NULL_HANDLE THEN {Handle(kind, h)} ELSE {}

RECURSIVE Select(_, _, _)
\* the indices i >= from of gameObjects whose component is `kind`, ascending
Select(objects, kind, from) ==
    IF from > Len(objects) THEN << >>
    ELSE (IF objects[from] = kind THEN <<from>> ELSE << >>)
         \o Select(objects, kind, from + 1)

\* the scan at the head of every create* function: skyboxIndex, the last
\* drawable that carries a SkyboxRenderer
skyboxIndex(objects) ==
    LET found == Select(objects, "SkyboxRenderer", 1)
    IN  IF found = << >> THEN SIZE_MAX ELSE found[Len(found)]

\* a scan that takes every drawable for a mesh
meshRendererIndicesAllObjects(objects) ==
    [i \in 1 .. Len(objects) |-> i]

\* the scan at the head of every create* function: meshRendererIndices
meshRendererIndices(objects) == Select(objects, "MeshRenderer", 1)

\* updateUniformBuffer that ignores the surface transform
AspectRatioIgnoresTransform(extent, transform) ==
    <<extent.width, extent.height>>

\* updateUniformBuffer: the aspect ratio, as the fraction num/den
AspectRatio(extent, transform) ==
    IF transform = "ROTATE_90" \/ transform = "ROTATE_270"
    THEN <<extent.height, extent.width>>
    ELSE <<extent.width, extent.height>>

\* createClearColorPipeline: the new clearColorData_ in generation g
createClearColorPipeline(data, g) ==
    IF ~assets.clearShader
    THEN data
    ELSE [pipeline |-> g, pipelineLayout |-> g, vertexBuffer |-> g]

\* createSkyboxPipeline that creates the two layouts before it loads the shaders
createSkyboxPipelineLayoutsFirst(data, g) ==
    LET hasRenderer == skyboxIndex(gameObjects) # SIZE_MAX
        hasTexture  == assets.skybox = "valid"
    IN  IF ~hasRenderer \/ ~hasTexture
        THEN [data EXCEPT !.hasTexture = FALSE]
        ELSE IF ~assets.skyboxShader
        THEN [data EXCEPT !.hasTexture = FALSE, !.pipelineLayout = g,
                          !.descriptorSetLayout = g]
        ELSE [pipeline |-> g, pipelineLayout |-> g, descriptorSetLayout |-> g,
              hasTexture |-> TRUE]

\* createSkyboxPipeline: the new skyboxData_ in generation g
createSkyboxPipeline(data, g) ==
    LET hasRenderer == skyboxIndex(gameObjects) # SIZE_MAX
        hasTexture  == assets.skybox = "valid"
    IN  IF ~hasRenderer \/ ~hasTexture
        THEN [data EXCEPT !.hasTexture = FALSE]
        ELSE IF ~assets.skyboxShader
        THEN [data EXCEPT !.hasTexture = FALSE]
        ELSE [pipeline |-> g, pipelineLayout |-> g, descriptorSetLayout |-> g,
              hasTexture |-> TRUE]

\* objects created by a create*Pipeline call: the fields it changed
CreatedClearColor(old, new) ==
    IF new = old THEN {}
    ELSE {Handle("clearColorPipeline", new.pipeline),
          Handle("clearColorPipelineLayout", new.pipelineLayout),
          Handle("clearColorVertexBuffer", new.vertexBuffer)}

CreatedSkybox(old, new) ==
    IF new.pipeline = old.pipeline THEN {}
    ELSE {Handle("skyboxPipeline", new.pipeline),
          Handle("skyboxPipelineLayout", new.pipelineLayout),
          Handle("skyboxDescriptorSetLayout", new.descriptorSetLayout)}

EmptyCommandBuffer ==
    [state |-> "initial", renderPass |-> VK_NULL_HANDLE,
     framebuffer |-> VK_NULL_HANDLE,
     extent |-> Extent(0, 0), viewport |-> Extent(0, 0),
     scissor |-> Extent(0, 0), pipelineViewport |-> Extent(0, 0),
     background |-> "none",
     graphicsPipeline |-> VK_NULL_HANDLE, descriptorSlot |-> 0,
     draws |-> << >>]

\* the background recordCommandBuffer draws first: the skybox, or the flat
\* colour when the scene has a skybox drawable that cannot be drawn
background ==
    IF skyboxData.pipeline # VK_NULL_HANDLE /\ skyboxData.hasTexture
    THEN "skybox"
    ELSE IF skyboxIndex(gameObjects) # SIZE_MAX
            /\ clearColorData.pipeline # VK_NULL_HANDLE
    THEN "clearColor"
    ELSE "none"

\* the draw call of the background, bound to the slot's skybox descriptor set
backgroundDraws(frame) ==
    IF background = "skybox"
    THEN <<[op |-> "vkCmdDrawIndexed", pipeline |-> "skybox", slot |-> frame]>>
    ELSE IF background = "clearColor"
    THEN <<[op |-> "vkCmdDraw", pipeline |-> "clearColor", slot |-> frame]>>
    ELSE << >>

\* a mesh loop that indexes the table by the drawable's index in the scene
meshDrawsByMasterIndex(frame) ==
    [j \in 1 .. Len(meshRendererIndices(gameObjects)) |->
        LET i == meshRendererIndices(gameObjects)[j]
            entry == IF i \in DOMAIN renderObjects
                     THEN renderObjects[i]
                     ELSE [vertexBuffer |-> Indeterminate,
                           indexBuffer |-> Indeterminate,
                           descriptorSets |->
                               [k \in 1 .. MAX_FRAMES_IN_FLIGHT |-> Indeterminate]]
        IN  [op |-> "vkCmdDrawIndexed", pipeline |-> "main", slot |-> frame,
             model |-> i,
             vertexBuffer |-> entry.vertexBuffer,
             indexBuffer |-> entry.indexBuffer,
             descriptorSet |-> entry.descriptorSets[frame + 1]]]

\* the mesh loop of recordCommandBuffer: for the j-th mesh drawable, drawable
\* i of the scene, one indexed draw of i's model with the buffers and the
\* slot's descriptor set of table entry j
meshDraws(frame) ==
    [j \in 1 .. Len(meshRendererIndices(gameObjects)) |->
        LET i == meshRendererIndices(gameObjects)[j]
        IN  [op |-> "vkCmdDrawIndexed", pipeline |-> "main", slot |-> frame,
             model |-> i,
             vertexBuffer |-> renderObjects[j].vertexBuffer,
             indexBuffer |-> renderObjects[j].indexBuffer,
             descriptorSet |-> renderObjects[j].descriptorSets[frame + 1]]]


\* recordCommandBuffer binding the descriptor set of the other frame slot
recordCommandBufferOtherDescriptor(frame) ==
    [state |-> "executable",
     renderPass |-> renderPass,
     framebuffer |-> swapChainFramebuffers,
     extent |-> swapChainExtent,
     viewport |-> swapChainExtent,
     scissor |-> swapChainExtent,
     pipelineViewport |-> builtWith.framebufferExtent,
     background |-> background,
     graphicsPipeline |-> graphicsPipeline,
     descriptorSlot |-> (frame + 1) % MAX_FRAMES_IN_FLIGHT,
     draws |-> backgroundDraws(frame) \o meshDraws(frame)]

\* whether a main pipeline takes its viewport and scissor from the command
\* buffer: the one recreateSwapChain builds declares the two dynamic states,
\* the one createGraphicsPipeline builds declares none
DynamicViewport(pipeline) == pipeline > 1

\* the viewport and scissor extents a draw of command buffer cb can run with:
\* those baked into its pipeline, or those the command buffer has set, which
\* are undefined once a pipeline with baked ones was bound after that
Viewports(cb, draw) ==
    IF draw.pipeline # "main" \/ ~DynamicViewport(cb.graphicsPipeline)
    THEN {cb.pipelineViewport}
    ELSE IF cb.background = "none"
    THEN {cb.viewport, cb.scissor}
    ELSE {cb.viewport, cb.scissor, cb.pipelineViewport}

\* recordCommandBuffer that draws the meshes before the background
recordCommandBufferMeshesFirst(frame) ==
    [state |-> "executable",
     renderPass |-> renderPass,
     framebuffer |-> swapChainFramebuffers,
     extent |-> swapChainExtent,
     viewport |-> swapChainExtent,
     scissor |-> swapChainExtent,
     pipelineViewport |-> builtWith.framebufferExtent,
     background |-> background,
     graphicsPipeline |-> graphicsPipeline,
     descriptorSlot |-> frame,
     draws |-> meshDraws(frame) \o backgroundDraws(frame)]

\* recordCommandBuffer: what the command buffer of slot `frame` holds afterwards
recordCommandBuffer(frame) ==
    [state |-> "executable",
     renderPass |-> renderPass,
     framebuffer |-> swapChainFramebuffers,
     extent |-> swapChainExtent,
     viewport |-> swapChainExtent,
     scissor |-> swapChainExtent,
     pipelineViewport |-> builtWith.framebufferExtent,
     background |-> background,
     graphicsPipeline |-> graphicsPipeline,
     descriptorSlot |-> frame,
     draws |-> backgroundDraws(frame) \o meshDraws(frame)]

---------------------------------------------------------------------------
(* The scene and the per-object resource table built by init() *)

\* createScene: the drawables, by the renderer component each one carries
createScene ==
    <<"MeshRenderer">>
    \o (IF assets.skybox # "none" THEN <<"SkyboxRenderer">> ELSE << >>)

\* a value-initialized RenderObjectData
EmptyRenderObjectData ==
    [vertexBuffer |-> VK_NULL_HANDLE, indexBuffer |-> VK_NULL_HANDLE,
     uniformBuffers |-> << >>, uniformBuffersMapped |-> << >>,
     descriptorSets |-> << >>]

\* createVertexBuffer: resize the table, one vertex buffer per entry; a buffer
\* is named by the drawable whose model it holds
createVertexBuffer(scene) ==
    [j \in 1 .. Len(meshRendererIndices(scene)) |->
        [EmptyRenderObjectData EXCEPT
            !.vertexBuffer = meshRendererIndices(scene)[j]]]

\* createIndexBuffer: one index buffer per mesh drawable
createIndexBuffer(objects, scene) ==
    [j \in DOMAIN objects |->
        IF j <= Len(meshRendererIndices(scene))
        THEN [objects[j] EXCEPT !.indexBuffer = meshRendererIndices(scene)[j]]
        ELSE objects[j]]

\* createUniformBuffers: MAX_FRAMES_IN_FLIGHT buffers, each mapped
createUniformBuffers(objects, scene) ==
    [j \in DOMAIN objects |->
        IF j <= Len(meshRendererIndices(scene))
        THEN [objects[j] EXCEPT
                 !.uniformBuffers = [k \in 1 .. MAX_FRAMES_IN_FLIGHT |-> 1],
                 !.uniformBuffersMapped = [k \in 1 .. MAX_FRAMES_IN_FLIGHT |-> 1]]
        ELSE objects[j]]

\* createDescriptorSets: MAX_FRAMES_IN_FLIGHT sets per mesh drawable; a set is
\* named by the drawable whose texture it is written with
createDescriptorSets(objects, scene) ==
    [j \in DOMAIN objects |->
        IF j <= Len(meshRendererIndices(scene))
        THEN [objects[j] EXCEPT
                 !.descriptorSets = [k \in 1 .. MAX_FRAMES_IN_FLIGHT |->
                                        meshRendererIndices(scene)[j]]]
        ELSE objects[j]]

\* the drawables createDescriptorPool counts for `kind`
CountOf(scene, kind) == Len(Select(scene, kind, 1))

\* createDescriptorPool that sizes the pool for the mesh drawables only
createDescriptorPoolMeshesOnly(scene) ==
    LET totalSets == CountOf(scene, "MeshRenderer") * MAX_FRAMES_IN_FLIGHT
    IN  [maxSets |-> totalSets, uniformBuffers |-> totalSets,
         imageSamplers |-> totalSets, allocated |-> 0]

\* createDescriptorPool: maxSets and the descriptor count of each of the two
\* pool sizes; nothing is allocated yet
createDescriptorPool(scene) ==
    LET totalSets == (CountOf(scene, "MeshRenderer")
                        + CountOf(scene, "SkyboxRenderer")) * MAX_FRAMES_IN_FLIGHT
    IN  [maxSets |-> totalSets, uniformBuffers |-> totalSets,
         imageSamplers |-> totalSets, allocated |-> 0]

\* vkAllocateDescriptorSets of createDescriptorSets: MAX_FRAMES_IN_FLIGHT sets
\* for every mesh drawable
allocateDescriptorSets(pool, scene) ==
    [pool EXCEPT !.allocated =
        @ + Len(meshRendererIndices(scene)) * MAX_FRAMES_IN_FLIGHT]

\* createSkyboxDescriptorSets: MAX_FRAMES_IN_FLIGHT sets when the scene has a
\* skybox drawable and skyboxData_.hasTexture is set
createSkyboxDescriptorSets(pool, scene, data) ==
    IF skyboxIndex(scene) = SIZE_MAX \/ ~data.hasTexture
    THEN pool
    ELSE [pool EXCEPT !.allocated = @ + MAX_FRAMES_IN_FLIGHT]

\* updateUniformBuffer: the mapping of table entry j receives the model matrix
\* of the j-th mesh drawable
uniformModelWrites(scene) ==
    {<<j, meshRendererIndices(scene)[j]>> :
        j \in 1 .. Len(meshRendererIndices(scene))}

\* a queue family: whether it has VK_QUEUE_GRAPHICS_BIT, and what
\* vkGetPhysicalDeviceSurfaceSupportKHR reports for it
QueueFamily(g, p) == [graphics |-> g, present |-> p]

RECURSIVE selectQueueFamilies(_, _, _, _)
\* the selection loop of init(), from family i on (families count from 0),
\* with the indices found so far
selectQueueFamilies(families, i, graphics, present) ==
    IF i >= Len(families) THEN [graphicsFamily |-> graphics, presentFamily |-> present]
    ELSE LET g == IF families[i + 1].graphics THEN i ELSE graphics
             p == IF families[i + 1].present THEN i ELSE present
         IN  IF g # -1 /\ p # -1
             THEN [graphicsFamily |-> g, presentFamily |-> p]
             ELSE selectQueueFamilies(families, i + 1, g, p)

\* the table after init()
InitRenderObjects ==
    createDescriptorSets(
        createUniformBuffers(
            createIndexBuffer(createVertexBuffer(createScene), createScene),
            createScene),
        createScene)

---------------------------------------------------------------------------
(* State after the constructor has run init() *)

InitClearColorData ==
    createClearColorPipeline(
        [pipeline |-> VK_NULL_HANDLE, pipelineLayout |-> VK_NULL_HANDLE,
         vertexBuffer |-> VK_NULL_HANDLE], 1)

InitSkyboxData ==
    createSkyboxPipeline(
        [pipeline |-> VK_NULL_HANDLE, pipelineLayout |-> VK_NULL_HANDLE,
         descriptorSetLayout |-> VK_NULL_HANDLE, hasTexture |-> FALSE], 1)

\* the descriptor pool after init()
InitDescriptorPool ==
    createSkyboxDescriptorSets(
        allocateDescriptorSets(createDescriptorPool(gameObjects), gameObjects),
        gameObjects, InitSkyboxData)

\* what init() has built before it creates the per-object resources: the
\* swapchain and its dependents, the sync objects and the three pipelines
InitContext ==
    /\ currentFrame = 0
    /\ result = "VK_SUCCESS"
    /\ imageIndex = 0
    /\ inFlightFences = [s \in Slots |-> TRUE]
    /\ imageAvailableSemaphores = [s \in Slots |-> FALSE]
    /\ renderFinishedSemaphores = [s \in Slots |-> FALSE]
    /\ commandBuffers = [s \in Slots |-> EmptyCommandBuffer]
    /\ gpuQueue = << >>
    /\ uniformBuffersMapped = [s \in Slots |-> << >>]
    /\ skyboxUniformBuffersMapped = [s \in Slots |-> << >>]
    /\ acquired = {}
    /\ swapChainExtent \in ValidExtents
    /\ currentTransform \in Transforms
    /\ swapChain = 1
    /\ swapChainImageViews = 1
    /\ renderPass = 1
    /\ swapChainFramebuffers = 1
    /\ graphicsPipeline = (IF assets.mainShader THEN 1 ELSE Indeterminate)
    /\ pipelineLayout = (IF assets.mainShader THEN 1 ELSE Indeterminate)
    /\ clearColorData = InitClearColorData
    /\ skyboxData = InitSkyboxData
    /\ live = {Handle("swapchain", 1), Handle("imageViews", 1),
               Handle("renderPass", 1), Handle("framebuffers", 1)}
              \cup LiveOf("pipelineLayout", pipelineLayout)
              \cup LiveOf("graphicsPipeline", graphicsPipeline)
              \cup LiveOf("clearColorPipeline", clearColorData.pipeline)
              \cup LiveOf("clearColorPipelineLayout", clearColorData.pipelineLayout)
              \cup LiveOf("clearColorVertexBuffer", clearColorData.vertexBuffer)
              \cup LiveOf("skyboxPipeline", skyboxData.pipeline)
              \cup LiveOf("skyboxPipelineLayout", skyboxData.pipelineLayout)
              \cup LiveOf("skyboxDescriptorSetLayout", skyboxData.descriptorSetLayout)
    /\ generation = 1
    /\ oldSwapChain = VK_NULL_HANDLE
    /\ builtWith = [imageExtent |-> swapChainExtent,
                    framebufferExtent |-> swapChainExtent]
    /\ uniformModels = [s \in Slots |-> {}]
    /\ teardown = << >>

\* a create info that is always exclusive
SharingExclusive(graphics, present) ==
    [imageSharingMode |-> "VK_SHARING_MODE_EXCLUSIVE",
     queueFamilyIndices |-> << >>]

\* the sharing fields of swapChainCreateInfo for the two selected families
Sharing(graphics, present) ==
    IF graphics # present
    THEN [imageSharingMode |-> "VK_SHARING_MODE_CONCURRENT",
          queueFamilyIndices |-> <<graphics, present>>]
    ELSE [imageSharingMode |-> "VK_SHARING_MODE_EXCLUSIVE",
          queueFamilyIndices |-> << >>]

\* the queue families init() selected
InitQueueFamilies ==
    /\ graphicsFamily = selectQueueFamilies(queueFamilies, 0, -1, -1).graphicsFamily
    /\ presentFamily = selectQueueFamilies(queueFamilies, 0, -1, -1).presentFamily
    /\ swapChainCreateInfo = Sharing(graphicsFamily, presentFamily)

\* surface capabilities with the given extent and transform
Queried(extent, transform) ==
    [currentExtent |-> extent, currentTransform |-> transform]

\* a ResourcePool after construction
InitResourcePool ==
    /\ textures_ = << >>
    /\ buffers_ = << >>
    /\ issued = {}

\* the surface and the window as init() found them
InitSurface ==
    /\ capabilities = Queried(swapChainExtent, currentTransform)
    /\ window = swapChainExtent

Init ==
    /\ assets \in AssetSets
    /\ gameObjects = createScene
    /\ InitContext
    /\ pc = "idle"
    /\ renderObjects = InitRenderObjects
    /\ descriptorPool = InitDescriptorPool
    /\ queueFamilies = <<QueueFamily(TRUE, TRUE)>>
    /\ InitQueueFamilies
    /\ InitSurface
    /\ InitResourcePool

---------------------------------------------------------------------------
(* recreateSwapChain, called from render() *)

\* a correction that keeps what the surface reported
CorrectedExtentKeepCapability(capExtent, windowExtent) == capExtent

\* the extent recreateSwapChain settles on: the window's when the two disagree
CorrectedExtent(capExtent, windowExtent) ==
    IF capExtent.width # windowExtent.width \/ capExtent.height # windowExtent.height
    THEN windowExtent
    ELSE capExtent

\* the extents the correction can yield, over all the surface and window reports
CorrectedExtents == {CorrectedExtent(c, w) : c \in Extents, w \in Extents}

\* recreateSwapChain that destroys the held swapchain before the creation call
recreateSwapChainDestroyFirst(queried, windowExtent, createResult, acq) ==
    LET extent == CorrectedExtent(queried.currentExtent, windowExtent)
        capTransform == queried.currentTransform
        g      == generation + 1
        newClearColor == createClearColorPipeline(clearColorData, g)
        newSkybox     == createSkyboxPipeline(skyboxData, g)
    IN  /\ generation' = g
        /\ capabilities' = queried
        /\ window' = windowExtent
        /\ swapChainExtent' = extent
        /\ currentTransform' = capTransform
        /\ IF extent.width = 0 \/ extent.height = 0
           THEN \* minimized: return
                /\ acquired' = acq
                /\ UNCHANGED <<swapChain, swapChainImageViews, renderPass,
                               swapChainFramebuffers, graphicsPipeline,
                               pipelineLayout, clearColorData, skyboxData, live,
                               oldSwapChain, builtWith>>
           ELSE IF createResult # "VK_SUCCESS"
           THEN \* "Failed to recreate swapchain": return
                /\ oldSwapChain' = swapChain
                /\ acquired' = acq
                /\ live' = live \ LiveOf("swapchain", swapChain)
                /\ UNCHANGED <<swapChain, swapChainImageViews, renderPass,
                               swapChainFramebuffers, graphicsPipeline,
                               pipelineLayout, clearColorData, skyboxData,
                               builtWith>>
           ELSE /\ oldSwapChain' = swapChain
                /\ swapChain' = g
                /\ acquired' = {}
                /\ swapChainImageViews' = g
                /\ renderPass' = g
                /\ IF ~assets.mainShader
                   THEN \* "Failed to load shader files during swapchain recreation"
                        /\ live' = (live \ LiveOf("swapchain", swapChain))
                                   \cup {Handle("swapchain", g), Handle("imageViews", g),
                                         Handle("renderPass", g)}
                        /\ builtWith' = [builtWith EXCEPT !.imageExtent = extent]
                        /\ UNCHANGED <<swapChainFramebuffers, graphicsPipeline,
                                       pipelineLayout, clearColorData, skyboxData>>
                   ELSE /\ builtWith' = [imageExtent |-> extent,
                                          framebufferExtent |-> extent]
                        /\ pipelineLayout' = g
                        /\ graphicsPipeline' = g
                        /\ swapChainFramebuffers' = g
                        /\ clearColorData' = newClearColor
                        /\ skyboxData' = newSkybox
                        /\ live' = (live \ LiveOf("swapchain", swapChain))
                                   \cup {Handle("swapchain", g), Handle("imageViews", g),
                                         Handle("renderPass", g),
                                         Handle("pipelineLayout", g),
                                         Handle("graphicsPipeline", g),
                                         Handle("framebuffers", g)}
                                   \cup CreatedClearColor(clearColorData, newClearColor)
                                   \cup CreatedSkybox(skyboxData, newSkybox)

\* queried: the surface capabilities the call reads; windowExtent: the window
\* size it reads; createResult: what vkCreateSwapchainKHR returns; acq: the images the
\* application holds when the call starts
recreateSwapChain(queried, windowExtent, createResult, acq) ==
    LET extent == CorrectedExtent(queried.currentExtent, windowExtent)
        capTransform == queried.currentTransform
        g      == generation + 1
        newClearColor == createClearColorPipeline(clearColorData, g)
        newSkybox     == createSkyboxPipeline(skyboxData, g)
    IN  /\ generation' = g
        /\ capabilities' = queried
        /\ window' = windowExtent
        /\ swapChainExtent' = extent
        /\ currentTransform' = capTransform
        /\ IF extent.width = 0 \/ extent.height = 0
           THEN \* minimized: return
                /\ acquired' = acq
                /\ UNCHANGED <<swapChain, swapChainImageViews, renderPass,
                               swapChainFramebuffers, graphicsPipeline,
                               pipelineLayout, clearColorData, skyboxData, live,
                               oldSwapChain, builtWith>>
           ELSE IF createResult # "VK_SUCCESS"
           THEN \* "Failed to recreate swapchain": return
                /\ oldSwapChain' = swapChain
                /\ acquired' = acq
                /\ UNCHANGED <<swapChain, swapChainImageViews, renderPass,
                               swapChainFramebuffers, graphicsPipeline,
                               pipelineLayout, clearColorData, skyboxData, live,
                               builtWith>>
           ELSE /\ oldSwapChain' = swapChain
                /\ swapChain' = g
                /\ acquired' = {}
                /\ swapChainImageViews' = g
                /\ renderPass' = g
                /\ IF ~assets.mainShader
                   THEN \* "Failed to load shader files during swapchain recreation"
                        /\ live' = (live \ LiveOf("swapchain", swapChain))
                                   \cup {Handle("swapchain", g), Handle("imageViews", g),
                                         Handle("renderPass", g)}
                        /\ builtWith' = [builtWith EXCEPT !.imageExtent = extent]
                        /\ UNCHANGED <<swapChainFramebuffers, graphicsPipeline,
                                       pipelineLayout, clearColorData, skyboxData>>
                   ELSE /\ builtWith' = [imageExtent |-> extent,
                                          framebufferExtent |-> extent]
                        /\ pipelineLayout' = g
                        /\ graphicsPipeline' = g
                        /\ swapChainFramebuffers' = g
                        /\ clearColorData' = newClearColor
                        /\ skyboxData' = newSkybox
                        /\ live' = (live \ LiveOf("swapchain", swapChain))
                                   \cup {Handle("swapchain", g), Handle("imageViews", g),
                                         Handle("renderPass", g),
                                         Handle("pipelineLayout", g),
                                         Handle("graphicsPipeline", g),
                                         Handle("framebuffers", g)}
                                   \cup CreatedClearColor(clearColorData, newClearColor)
                                   \cup CreatedSkybox(skyboxData, newSkybox)

---------------------------------------------------------------------------
(* render(), one step per action *)

\* render() that does not wait for the slot's fence
RenderWaitFenceNoWait ==
    /\ pc = "idle"
    /\ pc' = "acquire"
    /\ UNCHANGED <<currentFrame, result, imageIndex, inFlightFences,
                   imageAvailableSemaphores, renderFinishedSemaphores,
                   commandBuffers, gpuQueue, uniformBuffersMapped,
                   skyboxUniformBuffersMapped, acquired, swapVars, sceneVars,
                   deviceVars, poolVars, renderObjects, teardown>>

\* render() that resets the fence right after the wait, before the acquire
RenderWaitFenceThenReset ==
    /\ pc = "idle"
    /\ inFlightFences[currentFrame]
    /\ inFlightFences' = [inFlightFences EXCEPT ![currentFrame] = FALSE]
    /\ pc' = "acquire"
    /\ UNCHANGED <<currentFrame, result, imageIndex, imageAvailableSemaphores,
                   renderFinishedSemaphores, commandBuffers, gpuQueue,
                   uniformBuffersMapped, skyboxUniformBuffersMapped, acquired,
                   swapVars, sceneVars, deviceVars, poolVars, renderObjects, teardown>>

\* vkWaitForFences on the current slot's fence returns
RenderWaitFence ==
    /\ pc = "idle"
    /\ inFlightFences[currentFrame]
    /\ pc' = "acquire"
    /\ UNCHANGED <<currentFrame, result, imageIndex, inFlightFences,
                   imageAvailableSemaphores, renderFinishedSemaphores,
                   commandBuffers, gpuQueue, uniformBuffersMapped,
                   skyboxUniformBuffersMapped, acquired, swapVars, sceneVars,
                   deviceVars, poolVars, renderObjects, teardown>>

\* vkAcquireNextImageKHR: Success and Suboptimal hand out an image and signal
\* the slot's semaphore
RenderAcquire ==
    /\ pc = "acquire"
    /\ \E r \in AcquireResults :
        /\ result' = r
        /\ r \in {"VK_ERROR_OUT_OF_DATE_KHR", "VK_SUBOPTIMAL_KHR"}
              => generation <= MaxRebuilds
        /\ IF r \in {"VK_SUCCESS", "VK_SUBOPTIMAL_KHR"}
           THEN /\ \E img \in Images \ acquired :
                      /\ imageIndex' = img
                      /\ acquired' = acquired \cup {img}
                /\ imageAvailableSemaphores' =
                      [imageAvailableSemaphores EXCEPT ![currentFrame] = TRUE]
           ELSE UNCHANGED <<imageIndex, acquired, imageAvailableSemaphores>>
    /\ pc' = "acquired"
    /\ UNCHANGED <<currentFrame, inFlightFences, renderFinishedSemaphores,
                   commandBuffers, gpuQueue, uniformBuffersMapped,
                   skyboxUniformBuffersMapped, swapVars, sceneVars,
                   deviceVars, poolVars, renderObjects, teardown>>

\* triage that rebuilds on every failing acquire result
RenderAcquireTriageRebuildOnError ==
    /\ pc = "acquired"
    /\ IF result # "VK_SUCCESS"
       THEN /\ generation <= MaxRebuilds + 1
            /\ \E extent \in CorrectedExtents, capTransform \in Transforms,
                  createResult \in CreateResults :
                  recreateSwapChain(Queried(extent, capTransform), extent, createResult,
                                    acquired)
            /\ pc' = "idle"
            /\ result' = "VK_SUCCESS"
            /\ imageIndex' = 0
       ELSE /\ pc' = "update"
            /\ UNCHANGED <<result, imageIndex, acquired, swapVars>>
    /\ UNCHANGED <<currentFrame, inFlightFences, imageAvailableSemaphores,
                   renderFinishedSemaphores, commandBuffers, gpuQueue,
                   uniformBuffersMapped, skyboxUniformBuffersMapped,
                   sceneVars, deviceVars, poolVars, renderObjects, teardown>>

\* triage that advances currentFrame on the early returns as well
RenderAcquireTriageAdvance ==
    /\ pc = "acquired"
    /\ IF result = "VK_ERROR_OUT_OF_DATE_KHR" \/ result = "VK_SUBOPTIMAL_KHR"
       THEN /\ \E extent \in CorrectedExtents, capTransform \in Transforms,
                  createResult \in CreateResults :
                  recreateSwapChain(Queried(extent, capTransform), extent, createResult,
                                    acquired)
            /\ pc' = "idle"
            /\ result' = "VK_SUCCESS"
            /\ imageIndex' = 0
            /\ currentFrame' = (currentFrame + 1) % MAX_FRAMES_IN_FLIGHT
       ELSE IF result # "VK_SUCCESS"
       THEN /\ pc' = "idle"
            /\ result' = "VK_SUCCESS"
            /\ imageIndex' = 0
            /\ currentFrame' = (currentFrame + 1) % MAX_FRAMES_IN_FLIGHT
            /\ UNCHANGED <<acquired, swapVars>>
       ELSE /\ pc' = "update"
            /\ UNCHANGED <<currentFrame, result, imageIndex, acquired, swapVars>>
    /\ UNCHANGED <<inFlightFences, imageAvailableSemaphores,
                   renderFinishedSemaphores, commandBuffers, gpuQueue,
                   uniformBuffersMapped, skyboxUniformBuffersMapped,
                   sceneVars, deviceVars, poolVars, renderObjects, teardown>>

\* triage that rebuilds on Out-of-Date only and renders a Suboptimal image
RenderAcquireTriageUseSuboptimal ==
    /\ pc = "acquired"
    /\ IF result = "VK_ERROR_OUT_OF_DATE_KHR"
       THEN /\ \E extent \in CorrectedExtents, capTransform \in Transforms,
                  createResult \in CreateResults :
                  recreateSwapChain(Queried(extent, capTransform), extent, createResult,
                                    acquired)
            /\ pc' = "idle"
            /\ result' = "VK_SUCCESS"
            /\ imageIndex' = 0
       ELSE IF result # "VK_SUCCESS" /\ result # "VK_SUBOPTIMAL_KHR"
       THEN /\ pc' = "idle"
            /\ result' = "VK_SUCCESS"
            /\ imageIndex' = 0
            /\ UNCHANGED <<acquired, swapVars>>
       ELSE /\ pc' = "update"
            /\ UNCHANGED <<result, imageIndex, acquired, swapVars>>
    /\ UNCHANGED <<currentFrame, inFlightFences, imageAvailableSemaphores,
                   renderFinishedSemaphores, commandBuffers, gpuQueue,
                   uniformBuffersMapped, skyboxUniformBuffersMapped,
                   sceneVars, deviceVars, poolVars, renderObjects, teardown>>

\* the triage of the acquire result: rebuild and return, return, or go on
RenderAcquireTriage ==
    /\ pc = "acquired"
    /\ IF result = "VK_ERROR_OUT_OF_DATE_KHR" \/ result = "VK_SUBOPTIMAL_KHR"
       THEN /\ \E extent \in CorrectedExtents, capTransform \in Transforms,
                  createResult \in CreateResults :
                  recreateSwapChain(Queried(extent, capTransform), extent, createResult,
                                    acquired)
            /\ pc' = "idle"
            /\ result' = "VK_SUCCESS"
            /\ imageIndex' = 0
       ELSE IF result # "VK_SUCCESS"
       THEN /\ pc' = "idle"
            /\ result' = "VK_SUCCESS"
            /\ imageIndex' = 0
            /\ UNCHANGED <<acquired, swapVars>>
       ELSE /\ pc' = "update"
            /\ UNCHANGED <<result, imageIndex, acquired, swapVars>>
    /\ UNCHANGED <<currentFrame, inFlightFences, imageAvailableSemaphores,
                   renderFinishedSemaphores, commandBuffers, gpuQueue,
                   uniformBuffersMapped, skyboxUniformBuffersMapped,
                   sceneVars, deviceVars, poolVars, renderObjects, teardown>>

\* whether updateUniformBuffer writes the skybox's uniforms: a skybox drawable
\* exists, it has a texture, and createSkyboxDescriptorSets mapped its buffers
SkyboxUniformsWritten ==
    /\ skyboxIndex(gameObjects) # SIZE_MAX
    /\ skyboxData.hasTexture
    /\ InitSkyboxData.hasTexture

\* updateUniformBuffer writing through one mapping shared by all the slots
RenderUpdateUniformSharedMapping ==
    /\ pc = "update"
    /\ uniformBuffersMapped' =
          [s \in Slots |-> AspectRatio(swapChainExtent, currentTransform)]
    /\ skyboxUniformBuffersMapped' =
          IF SkyboxUniformsWritten
          THEN [s \in Slots |-> AspectRatio(swapChainExtent, currentTransform)]
          ELSE skyboxUniformBuffersMapped
    /\ uniformModels' =
          [uniformModels EXCEPT ![currentFrame] = uniformModelWrites(gameObjects)]
    /\ pc' = "reset"
    /\ UNCHANGED <<currentFrame, result, imageIndex, inFlightFences,
                   imageAvailableSemaphores, renderFinishedSemaphores,
                   commandBuffers, gpuQueue, acquired, swapVars, assets,
                   gameObjects, descriptorPool, deviceVars, poolVars, renderObjects,
                   teardown>>

\* updateUniformBuffer(currentFrame)
RenderUpdateUniform ==
    /\ pc = "update"
    /\ uniformBuffersMapped' =
          [uniformBuffersMapped EXCEPT
              ![currentFrame] = AspectRatio(swapChainExtent, currentTransform)]
    /\ skyboxUniformBuffersMapped' =
          IF SkyboxUniformsWritten
          THEN [skyboxUniformBuffersMapped EXCEPT
                  ![currentFrame] = AspectRatio(swapChainExtent, currentTransform)]
          ELSE skyboxUniformBuffersMapped
    /\ uniformModels' =
          [uniformModels EXCEPT ![currentFrame] = uniformModelWrites(gameObjects)]
    /\ pc' = "reset"
    /\ UNCHANGED <<currentFrame, result, imageIndex, inFlightFences,
                   imageAvailableSemaphores, renderFinishedSemaphores,
                   commandBuffers, gpuQueue, acquired, swapVars, assets,
                   gameObjects, descriptorPool, deviceVars, poolVars, renderObjects,
                   teardown>>

\* reset that picks the command buffer of the other frame slot
RenderResetOtherSlot ==
    /\ pc = "reset"
    /\ inFlightFences' = [inFlightFences EXCEPT ![currentFrame] = FALSE]
    /\ commandBuffers' =
          [commandBuffers EXCEPT
              ![(currentFrame + 1) % MAX_FRAMES_IN_FLIGHT] = EmptyCommandBuffer]
    /\ pc' = "record"
    /\ UNCHANGED <<currentFrame, result, imageIndex, imageAvailableSemaphores,
                   renderFinishedSemaphores, gpuQueue, uniformBuffersMapped,
                   skyboxUniformBuffersMapped, acquired, swapVars, sceneVars,
                   deviceVars, poolVars, renderObjects, teardown>>

\* vkResetFences and vkResetCommandBuffer
RenderReset ==
    /\ pc = "reset"
    /\ inFlightFences' = [inFlightFences EXCEPT ![currentFrame] = FALSE]
    /\ commandBuffers' = [commandBuffers EXCEPT ![currentFrame] = EmptyCommandBuffer]
    /\ pc' = "record"
    /\ UNCHANGED <<currentFrame, result, imageIndex, imageAvailableSemaphores,
                   renderFinishedSemaphores, gpuQueue, uniformBuffersMapped,
                   skyboxUniformBuffersMapped, acquired, swapVars, sceneVars,
                   deviceVars, poolVars, renderObjects, teardown>>

\* a render() that returns after recording, without submitting
RenderRecordThenReturn ==
    /\ pc = "record"
    /\ commandBuffers' =
          [commandBuffers EXCEPT
              ![currentFrame] = recordCommandBuffer(currentFrame)]
    /\ pc' = "idle"
    /\ UNCHANGED <<currentFrame, result, imageIndex, inFlightFences,
                   imageAvailableSemaphores, renderFinishedSemaphores,
                   gpuQueue, uniformBuffersMapped, skyboxUniformBuffersMapped,
                   acquired, swapVars, sceneVars, deviceVars, poolVars, renderObjects,
                   teardown>>

\* recordCommandBuffer(commandBuffers[currentFrame], imageIndex)
RenderRecord ==
    /\ pc = "record"
    /\ commandBuffers' =
          [commandBuffers EXCEPT
              ![currentFrame] = recordCommandBuffer(currentFrame)]
    /\ pc' = "submit"
    /\ UNCHANGED <<currentFrame, result, imageIndex, inFlightFences,
                   imageAvailableSemaphores, renderFinishedSemaphores,
                   gpuQueue, uniformBuffersMapped, skyboxUniformBuffersMapped,
                   acquired, swapVars, sceneVars, deviceVars, poolVars, renderObjects,
                   teardown>>

\* vkQueueSubmit of the other slot's command buffer, fence and semaphores
RenderSubmitOtherSlot ==
    /\ pc = "submit"
    /\ gpuQueue' = Append(gpuQueue, (currentFrame + 1) % MAX_FRAMES_IN_FLIGHT)
    /\ pc' = "present"
    /\ UNCHANGED <<currentFrame, result, imageIndex, inFlightFences,
                   imageAvailableSemaphores, renderFinishedSemaphores,
                   commandBuffers, uniformBuffersMapped,
                   skyboxUniformBuffersMapped, acquired, swapVars, sceneVars,
                   deviceVars, poolVars, renderObjects, teardown>>

\* vkQueueSubmit of the slot's command buffer: it waits on the slot's
\* image-available semaphore and signals the slot's render-finished semaphore
\* and fence
RenderSubmit ==
    /\ pc = "submit"
    /\ gpuQueue' = Append(gpuQueue, currentFrame)
    /\ pc' = "present"
    /\ UNCHANGED <<currentFrame, result, imageIndex, inFlightFences,
                   imageAvailableSemaphores, renderFinishedSemaphores,
                   commandBuffers, uniformBuffersMapped,
                   skyboxUniformBuffersMapped, acquired, swapVars, sceneVars,
                   deviceVars, poolVars, renderObjects, teardown>>

\* vkQueuePresentKHR: the image goes back to the presentation engine; the
\* present waits on the slot's render-finished semaphore and consumes its signal
RenderPresent ==
    /\ pc = "present"
    /\ \E r \in PresentResults :
        /\ result' = r
        /\ r \in {"VK_ERROR_OUT_OF_DATE_KHR", "VK_SUBOPTIMAL_KHR"}
              => generation <= MaxRebuilds
    /\ acquired' = acquired \ {imageIndex}
    /\ renderFinishedSemaphores' =
          [renderFinishedSemaphores EXCEPT ![currentFrame] = FALSE]
    /\ pc' = "presented"
    /\ UNCHANGED <<currentFrame, imageIndex, inFlightFences,
                   imageAvailableSemaphores, commandBuffers, gpuQueue,
                   uniformBuffersMapped, skyboxUniformBuffersMapped, swapVars,
                   sceneVars, deviceVars, poolVars, renderObjects, teardown>>

\* triage that returns right after the rebuild, as the acquire path does
RenderPresentTriageEarlyReturn ==
    /\ pc = "presented"
    /\ IF result = "VK_ERROR_OUT_OF_DATE_KHR" \/ result = "VK_SUBOPTIMAL_KHR"
       THEN /\ \E extent \in CorrectedExtents, capTransform \in Transforms,
                  createResult \in CreateResults :
                  recreateSwapChain(Queried(extent, capTransform), extent, createResult,
                                    acquired)
            /\ UNCHANGED currentFrame
       ELSE /\ UNCHANGED <<acquired, swapVars>>
            /\ currentFrame' = (currentFrame + 1) % MAX_FRAMES_IN_FLIGHT
    /\ pc' = "idle"
    /\ result' = "VK_SUCCESS"
    /\ imageIndex' = 0
    /\ UNCHANGED <<inFlightFences, imageAvailableSemaphores,
                   renderFinishedSemaphores, commandBuffers, gpuQueue,
                   uniformBuffersMapped, skyboxUniformBuffersMapped,
                   sceneVars, deviceVars, poolVars, renderObjects, teardown>>

\* render() whose rebuild after the present also reallocates the command buffers
RenderPresentTriageReallocate ==
    /\ pc = "presented"
    /\ IF result = "VK_ERROR_OUT_OF_DATE_KHR" \/ result = "VK_SUBOPTIMAL_KHR"
       THEN /\ \E extent \in CorrectedExtents, capTransform \in Transforms,
                  createResult \in CreateResults :
                  recreateSwapChain(Queried(extent, capTransform), extent, createResult,
                                    acquired)
            /\ commandBuffers' = [s \in Slots |-> EmptyCommandBuffer]
       ELSE UNCHANGED <<acquired, swapVars, commandBuffers>>
    /\ currentFrame' = (currentFrame + 1) % MAX_FRAMES_IN_FLIGHT
    /\ pc' = "idle"
    /\ result' = "VK_SUCCESS"
    /\ imageIndex' = 0
    /\ UNCHANGED <<inFlightFences, imageAvailableSemaphores,
                   renderFinishedSemaphores, gpuQueue, uniformBuffersMapped,
                   skyboxUniformBuffersMapped, sceneVars, deviceVars, poolVars,
                   renderObjects, teardown>>

\* the triage of the present result, and the frame index update
RenderPresentTriage ==
    /\ pc = "presented"
    /\ IF result = "VK_ERROR_OUT_OF_DATE_KHR" \/ result = "VK_SUBOPTIMAL_KHR"
       THEN \E extent \in CorrectedExtents, capTransform \in Transforms,
               createResult \in CreateResults :
               recreateSwapChain(Queried(extent, capTransform), extent, createResult,
                                    acquired)
       ELSE UNCHANGED <<acquired, swapVars>>
    /\ currentFrame' = (currentFrame + 1) % MAX_FRAMES_IN_FLIGHT
    /\ pc' = "idle"
    /\ result' = "VK_SUCCESS"
    /\ imageIndex' = 0
    /\ UNCHANGED <<inFlightFences, imageAvailableSemaphores,
                   renderFinishedSemaphores, commandBuffers, gpuQueue,
                   uniformBuffersMapped, skyboxUniformBuffersMapped,
                   sceneVars, deviceVars, poolVars, renderObjects, teardown>>

\* the GPU finishes the oldest submission: its wait semaphore is consumed, its
\* fence is signaled, and so is its render-finished semaphore, whose signal the
\* present of that frame consumes at once if it was issued already
GpuComplete ==
    /\ gpuQueue # << >>
    /\ LET slot == Head(gpuQueue)
       IN  /\ inFlightFences' = [inFlightFences EXCEPT ![slot] = TRUE]
           /\ imageAvailableSemaphores' =
                 [imageAvailableSemaphores EXCEPT ![slot] = FALSE]
           /\ renderFinishedSemaphores' =
                 [renderFinishedSemaphores EXCEPT
                     ![slot] = (pc = "present" /\ slot = currentFrame)]
    /\ gpuQueue' = Tail(gpuQueue)
    /\ UNCHANGED <<pc, currentFrame, result, imageIndex, commandBuffers,
                   uniformBuffersMapped, skyboxUniformBuffersMapped, acquired,
                   swapVars, sceneVars, deviceVars, poolVars, renderObjects, teardown>>

---------------------------------------------------------------------------
(* Teardown: the destructor, and cleanupSwapChain (which no code calls) *)

\* a destroy call guarded by `if (h != VK_NULL_HANDLE)`
DestroyIfSet(kind, h) == IF h # VK_NULL_HANDLE THEN <<Handle(kind, h)>> ELSE << >>

\* destructor that destroys the render pass before the framebuffers
DestructorOrderRenderPassFirst ==
    <<Handle("vkDeviceWaitIdle", VK_NULL_HANDLE)>>
    \o DestroyIfSet("clearColorPipeline", clearColorData.pipeline)
    \o DestroyIfSet("clearColorPipelineLayout", clearColorData.pipelineLayout)
    \o DestroyIfSet("clearColorVertexBuffer", clearColorData.vertexBuffer)
    \o DestroyIfSet("skyboxPipeline", skyboxData.pipeline)
    \o DestroyIfSet("skyboxPipelineLayout", skyboxData.pipelineLayout)
    \o DestroyIfSet("skyboxDescriptorSetLayout", skyboxData.descriptorSetLayout)
    \o <<Handle("graphicsPipeline", graphicsPipeline),
         Handle("pipelineLayout", pipelineLayout),
         Handle("renderPass", renderPass),
         Handle("framebuffers", swapChainFramebuffers),
         Handle("imageViews", swapChainImageViews),
         Handle("swapchain", swapChain)>>

\* ~RendererVulkan: the calls on the modelled objects, in the order issued
DestructorOrder ==
    <<Handle("vkDeviceWaitIdle", VK_NULL_HANDLE)>>
    \o DestroyIfSet("clearColorPipeline", clearColorData.pipeline)
    \o DestroyIfSet("clearColorPipelineLayout", clearColorData.pipelineLayout)
    \o DestroyIfSet("clearColorVertexBuffer", clearColorData.vertexBuffer)
    \o DestroyIfSet("skyboxPipeline", skyboxData.pipeline)
    \o DestroyIfSet("skyboxPipelineLayout", skyboxData.pipelineLayout)
    \o DestroyIfSet("skyboxDescriptorSetLayout", skyboxData.descriptorSetLayout)
    \o <<Handle("graphicsPipeline", graphicsPipeline),
         Handle("pipelineLayout", pipelineLayout),
         Handle("framebuffers", swapChainFramebuffers),
         Handle("renderPass", renderPass),
         Handle("imageViews", swapChainImageViews),
         Handle("swapchain", swapChain)>>

\* cleanupSwapChain: the calls in the order issued
cleanupSwapChainOrder ==
    <<Handle("vkDeviceWaitIdle", VK_NULL_HANDLE),
      Handle("framebuffers", swapChainFramebuffers),
      Handle("graphicsPipeline", graphicsPipeline)>>
    \o DestroyIfSet("clearColorPipeline", clearColorData.pipeline)
    \o DestroyIfSet("skyboxPipeline", skyboxData.pipeline)
    \o <<Handle("pipelineLayout", pipelineLayout)>>
    \o DestroyIfSet("clearColorPipelineLayout", clearColorData.pipelineLayout)
    \o DestroyIfSet("skyboxPipelineLayout", skyboxData.pipelineLayout)
    \o <<Handle("renderPass", renderPass),
         Handle("imageViews", swapChainImageViews),
         Handle("swapchain", swapChain)>>

\* the objects a sequence of destroy calls destroys
Destroyed(calls) == {calls[i] : i \in DOMAIN calls}

\* ~RendererVulkan, between two render() calls: vkDeviceWaitIdle returns once
\* the queue is empty, then the objects the members name are destroyed
Destructor ==
    /\ pc \in {"idle", "cleaned"}
    /\ gpuQueue = << >>
    /\ teardown' = DestructorOrder
    /\ live' = live \ Destroyed(DestructorOrder)
    /\ renderObjects' = << >>
    /\ pc' = "destroyed"
    /\ UNCHANGED <<currentFrame, result, imageIndex, inFlightFences,
                   imageAvailableSemaphores, renderFinishedSemaphores,
                   commandBuffers, gpuQueue, uniformBuffersMapped,
                   skyboxUniformBuffersMapped, acquired, swapChainExtent,
                   currentTransform, swapChain, swapChainImageViews,
                   renderPass, swapChainFramebuffers, graphicsPipeline,
                   pipelineLayout, clearColorData, skyboxData, generation,
                   oldSwapChain, builtWith,
                   capabilities, window, sceneVars, deviceVars, poolVars>>

\* cleanupSwapChain, called between two render() calls
cleanupSwapChain ==
    /\ pc = "idle"
    /\ gpuQueue = << >>
    /\ teardown' = cleanupSwapChainOrder
    /\ live' = live \ Destroyed(cleanupSwapChainOrder)
    /\ swapChainFramebuffers' = VK_NULL_HANDLE
    /\ graphicsPipeline' = VK_NULL_HANDLE
    /\ pipelineLayout' = VK_NULL_HANDLE
    /\ clearColorData' = [clearColorData EXCEPT !.pipeline = VK_NULL_HANDLE,
                                                !.pipelineLayout = VK_NULL_HANDLE]
    /\ skyboxData' = [skyboxData EXCEPT !.pipeline = VK_NULL_HANDLE,
                                        !.pipelineLayout = VK_NULL_HANDLE]
    /\ renderPass' = VK_NULL_HANDLE
    /\ swapChainImageViews' = VK_NULL_HANDLE
    /\ swapChain' = VK_NULL_HANDLE
    /\ pc' = "cleaned"
    /\ UNCHANGED <<currentFrame, result, imageIndex, inFlightFences,
                   imageAvailableSemaphores, renderFinishedSemaphores,
                   commandBuffers, gpuQueue, uniformBuffersMapped,
                   skyboxUniformBuffersMapped, acquired, swapChainExtent,
                   currentTransform, generation, oldSwapChain, builtWith,
                   capabilities, window, sceneVars,
                   deviceVars, poolVars, renderObjects>>

Next ==
    \/ RenderWaitFence
    \/ RenderAcquire
    \/ RenderAcquireTriage
    \/ RenderUpdateUniform
    \/ RenderReset
    \/ RenderRecord
    \/ RenderSubmit
    \/ RenderPresent
    \/ RenderPresentTriage
    \/ GpuComplete
    \/ Destructor

Spec == Init /\ [][Next]_vars

\* the program with a caller of the public cleanupSwapChain()
NextTeardown ==
    \/ Next
    \/ cleanupSwapChain

SpecTeardown == Init /\ [][NextTeardown]_vars

---------------------------------------------------------------------------
(* init() and one frame for every bounded scene *)

\* the scenes explored: every list of at most MaxObjects mesh and skybox
\* drawables
Scenes ==
    UNION {[1 .. n -> {"MeshRenderer", "SkyboxRenderer"}] : n \in 0 .. MaxObjects}

NoDescriptorPool ==
    [maxSets |-> 0, uniformBuffers |-> 0, imageSamplers |-> 0, allocated |-> 0]

\* init() has built the pipelines and is about to call createVertexBuffer
InitScene ==
    /\ assets \in AssetSets
    /\ gameObjects \in Scenes
    /\ InitContext
    /\ pc = "createVertexBuffer"
    /\ renderObjects = << >>
    /\ descriptorPool = NoDescriptorPool
    /\ queueFamilies = <<QueueFamily(TRUE, TRUE)>>
    /\ InitQueueFamilies
    /\ InitSurface
    /\ InitResourcePool

InitCreateVertexBuffer ==
    /\ pc = "createVertexBuffer"
    /\ renderObjects' = createVertexBuffer(gameObjects)
    /\ pc' = "createIndexBuffer"
    /\ UNCHANGED <<currentFrame, result, imageIndex, inFlightFences,
                   imageAvailableSemaphores, renderFinishedSemaphores,
                   commandBuffers, gpuQueue, uniformBuffersMapped,
                   skyboxUniformBuffersMapped, acquired, swapVars, sceneVars,
                   deviceVars, poolVars, teardown>>

InitCreateIndexBuffer ==
    /\ pc = "createIndexBuffer"
    /\ renderObjects' = createIndexBuffer(renderObjects, gameObjects)
    /\ pc' = "createUniformBuffers"
    /\ UNCHANGED <<currentFrame, result, imageIndex, inFlightFences,
                   imageAvailableSemaphores, renderFinishedSemaphores,
                   commandBuffers, gpuQueue, uniformBuffersMapped,
                   skyboxUniformBuffersMapped, acquired, swapVars, sceneVars,
                   deviceVars, poolVars, teardown>>

InitCreateUniformBuffers ==
    /\ pc = "createUniformBuffers"
    /\ renderObjects' = createUniformBuffers(renderObjects, gameObjects)
    /\ pc' = "createDescriptorPool"
    /\ UNCHANGED <<currentFrame, result, imageIndex, inFlightFences,
                   imageAvailableSemaphores, renderFinishedSemaphores,
                   commandBuffers, gpuQueue, uniformBuffersMapped,
                   skyboxUniformBuffersMapped, acquired, swapVars, sceneVars,
                   deviceVars, poolVars, teardown>>

InitCreateDescriptorPool ==
    /\ pc = "createDescriptorPool"
    /\ descriptorPool' = createDescriptorPool(gameObjects)
    /\ pc' = "createDescriptorSets"
    /\ UNCHANGED <<currentFrame, result, imageIndex, inFlightFences,
                   imageAvailableSemaphores, renderFinishedSemaphores,
                   commandBuffers, gpuQueue, uniformBuffersMapped,
                   skyboxUniformBuffersMapped, acquired, swapVars, assets,
                   gameObjects, uniformModels, deviceVars, poolVars, renderObjects,
                   teardown>>

InitCreateDescriptorSets ==
    /\ pc = "createDescriptorSets"
    /\ renderObjects' = createDescriptorSets(renderObjects, gameObjects)
    /\ descriptorPool' = allocateDescriptorSets(descriptorPool, gameObjects)
    /\ pc' = "createSkyboxDescriptorSets"
    /\ UNCHANGED <<currentFrame, result, imageIndex, inFlightFences,
                   imageAvailableSemaphores, renderFinishedSemaphores,
                   commandBuffers, gpuQueue, uniformBuffersMapped,
                   skyboxUniformBuffersMapped, acquired, swapVars, assets,
                   gameObjects, uniformModels, deviceVars, poolVars, teardown>>

\* the last create* call that allocates; init() is followed here by the steps
\* of render() that read the table
InitCreateSkyboxDescriptorSets ==
    /\ pc = "createSkyboxDescriptorSets"
    /\ descriptorPool' =
          createSkyboxDescriptorSets(descriptorPool, gameObjects, skyboxData)
    /\ pc' = "update"
    /\ UNCHANGED <<currentFrame, result, imageIndex, inFlightFences,
                   imageAvailableSemaphores, renderFinishedSemaphores,
                   commandBuffers, gpuQueue, uniformBuffersMapped,
                   skyboxUniformBuffersMapped, acquired, swapVars, assets,
                   gameObjects, uniformModels, deviceVars, poolVars, renderObjects,
                   teardown>>

NextScene ==
    \/ InitCreateVertexBuffer
    \/ InitCreateIndexBuffer
    \/ InitCreateUniformBuffers
    \/ InitCreateDescriptorPool
    \/ InitCreateDescriptorSets
    \/ InitCreateSkyboxDescriptorSets
    \/ RenderUpdateUniform
    \/ RenderReset
    \/ RenderRecord

SpecScene == InitScene /\ [][NextScene]_vars

---------------------------------------------------------------------------
(* The queue family selection for every bounded list of queue families *)

\* the lists explored: at most MaxFamilies families, each with or without the
\* graphics bit and present support
FamilyLists ==
    UNION {[1 .. n -> {QueueFamily(g, p) : g, p \in BOOLEAN}] :
              n \in 0 .. MaxFamilies}

\* swapChainCreateInfo{} before its sharing fields are set
NoCreateInfo == [imageSharingMode |-> "none", queueFamilyIndices |-> << >>]

\* the selection loop is about to run
InitDevice ==
    /\ assets \in AssetSets
    /\ gameObjects = createScene
    /\ InitContext
    /\ pc = "selectQueueFamilies"
    /\ renderObjects = InitRenderObjects
    /\ descriptorPool = InitDescriptorPool
    /\ queueFamilies \in FamilyLists
    /\ graphicsFamily = -1
    /\ presentFamily = -1
    /\ swapChainCreateInfo = NoCreateInfo
    /\ InitSurface
    /\ InitResourcePool

\* the loop over the queue families, from its first iteration to its exit
SelectQueueFamilies ==
    /\ pc = "selectQueueFamilies"
    /\ graphicsFamily' = selectQueueFamilies(queueFamilies, 0, graphicsFamily,
                                             presentFamily).graphicsFamily
    /\ presentFamily' = selectQueueFamilies(queueFamilies, 0, graphicsFamily,
                                            presentFamily).presentFamily
    /\ pc' = "createSwapChain"
    /\ UNCHANGED <<currentFrame, result, imageIndex, inFlightFences,
                   imageAvailableSemaphores, renderFinishedSemaphores,
                   commandBuffers, gpuQueue, uniformBuffersMapped,
                   skyboxUniformBuffersMapped, acquired, swapVars, sceneVars, poolVars,
                   queueFamilies, swapChainCreateInfo, renderObjects,
                   teardown>>

\* init() fills the sharing fields of swapChainCreateInfo
InitSwapChainCreateInfo ==
    /\ pc = "createSwapChain"
    /\ swapChainCreateInfo' = Sharing(graphicsFamily, presentFamily)
    /\ pc' = "idle"
    /\ UNCHANGED <<currentFrame, result, imageIndex, inFlightFences,
                   imageAvailableSemaphores, renderFinishedSemaphores,
                   commandBuffers, gpuQueue, uniformBuffersMapped,
                   skyboxUniformBuffersMapped, acquired, swapVars, sceneVars, poolVars,
                   queueFamilies, graphicsFamily, presentFamily, renderObjects,
                   teardown>>

\* recreateSwapChain between its extent check and vkCreateSwapchainKHR: its own
\* run of the selection loop, then the sharing fields of swapChainCreateInfo
RebuildSwapChainCreateInfo ==
    /\ pc = "idle"
    /\ generation <= MaxRebuilds
    /\ generation' = generation + 1
    /\ LET selected == selectQueueFamilies(queueFamilies, 0, -1, -1)
       IN  /\ graphicsFamily' = selected.graphicsFamily
           /\ presentFamily' = selected.presentFamily
           /\ swapChainCreateInfo' =
                 Sharing(selected.graphicsFamily, selected.presentFamily)
    /\ UNCHANGED <<frameVars, swapChainExtent, currentTransform, swapChain,
                   swapChainImageViews, renderPass, swapChainFramebuffers,
                   graphicsPipeline, pipelineLayout, clearColorData, skyboxData,
                   live, oldSwapChain, builtWith, sceneVars, poolVars, queueFamilies,
                   capabilities, window, renderObjects, teardown>>

NextDevice ==
    \/ SelectQueueFamilies
    \/ InitSwapChainCreateInfo
    \/ RebuildSwapChainCreateInfo

SpecDevice == InitDevice /\ [][NextDevice]_vars

---------------------------------------------------------------------------
(* recreateSwapChain over every pair of surface extent and window size *)

\* what the surface can report
SurfaceCapabilities == [currentExtent : Extents, currentTransform : Transforms]

\* recreateSwapChain(), from the capability query to its return, whatever the
\* surface and the window report
RecreateSwapChain ==
    /\ pc = "idle"
    /\ generation <= MaxRebuilds
    /\ \E queried \in SurfaceCapabilities, windowExtent \in Extents,
          createResult \in CreateResults :
          recreateSwapChain(queried, windowExtent, createResult, acquired)
    /\ UNCHANGED <<pc, currentFrame, result, imageIndex, inFlightFences,
                   imageAvailableSemaphores, renderFinishedSemaphores,
                   commandBuffers, gpuQueue, uniformBuffersMapped,
                   skyboxUniformBuffersMapped, sceneVars, deviceVars, poolVars,
                   renderObjects, teardown>>

NextResized == RecreateSwapChain

SpecResized == Init /\ [][NextResized]_vars

---------------------------------------------------------------------------
(* ResourcePool: textures and buffers behind index + generation handles *)

\* allocations explored, textures and buffers together
MaxAllocations == 4

\* Handle::InvalidValue, ~uint32_t(0): all bits set, as a signed number
InvalidValue == -1

nullptr == 0

\* TextureHandle(index, generation)
TextureHandle(index, gen) == [index |-> index, generation |-> gen]

\* BufferHandle(index, generation)
BufferHandle(index, gen) == [index |-> index, generation |-> gen]

\* Handle::IsValid
IsValid(handle) == handle.index # InvalidValue

\* a value-initialized TextureEntry or BufferEntry
EmptyEntry == [ptr |-> nullptr, generation |-> 0, inUse |-> FALSE]

\* the first index of the container whose entry is not in use: entry i of the
\* vector is element i + 1 of the sequence
FirstFree(container) ==
    LET free == {i \in DOMAIN container : ~container[i].inUse}
    IN  IF free = {}
        THEN InvalidValue
        ELSE (CHOOSE i \in free : \A k \in free : i <= k) - 1

\* an AllocateIndex that reuses a free entry under the generation it has
AllocateIndexSameGeneration(container) ==
    IF FirstFree(container) # InvalidValue
    THEN [index |-> FirstFree(container), container |-> container]
    ELSE [index |-> Len(container), container |-> Append(container, EmptyEntry)]

\* AllocateIndex: the first free entry with its generation incremented, or a
\* new entry at the end; yields the index and the container afterwards. The
\* uint32_t generation of an entry stays below MaxAllocations here.
AllocateIndex(container) ==
    IF FirstFree(container) # InvalidValue
    THEN [index |-> FirstFree(container),
          container |->
              [container EXCEPT ![FirstFree(container) + 1].generation = @ + 1]]
    ELSE [index |-> Len(container), container |-> Append(container, EmptyEntry)]

\* the pointer of the next allocation: resources are numbered as allocated
NextPtr == Cardinality(issued) + 1

\* AllocateTexture(desc, ptr)
AllocateTexture ==
    /\ Cardinality(issued) < MaxAllocations
    /\ LET allocated == AllocateIndex(textures_)
           index     == allocated.index
           handle    == TextureHandle(index,
                                      allocated.container[index + 1].generation)
       IN  /\ textures_' = [allocated.container EXCEPT
                                ![index + 1].ptr = NextPtr,
                                ![index + 1].inUse = TRUE]
           /\ issued' = issued \cup {[kind |-> "texture", handle |-> handle,
                                      ptr |-> NextPtr]}
    /\ UNCHANGED <<frameVars, swapVars, sceneVars, deviceVars, buffers_,
                   renderObjects, teardown>>

\* the handles a caller can pass for a kind: every handle the pool returned
\* for it, in use or not, and a default-constructed one
Passed(kind) ==
    {r.handle : r \in {i \in issued : i.kind = kind}}
        \cup {[index |-> InvalidValue, generation |-> 0]}

\* ReleaseTexture(handle)
ReleaseTexture ==
    /\ \E handle \in Passed("texture") :
          textures_' =
              IF ~IsValid(handle)
              THEN textures_
              ELSE IF handle.index < Len(textures_)
              THEN [textures_ EXCEPT ![handle.index + 1].inUse = FALSE]
              ELSE textures_
    /\ UNCHANGED <<frameVars, swapVars, sceneVars, deviceVars, buffers_, issued,
                   renderObjects, teardown>>

\* GetTexturePtr(handle)
GetTexturePtr(handle) ==
    IF ~IsValid(handle)
    THEN nullptr
    ELSE IF handle.index >= Len(textures_)
    THEN nullptr
    ELSE IF textures_[handle.index + 1].generation # handle.generation
    THEN nullptr
    ELSE textures_[handle.index + 1].ptr

\* IsTextureValid(handle)
IsTextureValid(handle) ==
    IF ~IsValid(handle)
    THEN FALSE
    ELSE IF handle.index >= Len(textures_)
    THEN FALSE
    ELSE /\ textures_[handle.index + 1].generation = handle.generation
         /\ textures_[handle.index + 1].inUse

\* AllocateBuffer(desc, ptr)
AllocateBuffer ==
    /\ Cardinality(issued) < MaxAllocations
    /\ LET allocated == AllocateIndex(buffers_)
           index     == allocated.index
           handle    == BufferHandle(index,
                                     allocated.container[index + 1].generation)
       IN  /\ buffers_' = [allocated.container EXCEPT
                               ![index + 1].ptr = NextPtr,
                               ![index + 1].inUse = TRUE]
           /\ issued' = issued \cup {[kind |-> "buffer", handle |-> handle,
                                      ptr |-> NextPtr]}
    /\ UNCHANGED <<frameVars, swapVars, sceneVars, deviceVars, textures_,
                   renderObjects, teardown>>

\* ReleaseBuffer(handle)
ReleaseBuffer ==
    /\ \E handle \in Passed("buffer") :
          buffers_' =
              IF ~IsValid(handle)
              THEN buffers_
              ELSE IF handle.index < Len(buffers_)
              THEN [buffers_ EXCEPT ![handle.index + 1].inUse = FALSE]
              ELSE buffers_
    /\ UNCHANGED <<frameVars, swapVars, sceneVars, deviceVars, textures_, issued,
                   renderObjects, teardown>>

\* GetBufferPtr(handle)
GetBufferPtr(handle) ==
    IF ~IsValid(handle)
    THEN nullptr
    ELSE IF handle.index >= Len(buffers_)
    THEN nullptr
    ELSE IF buffers_[handle.index + 1].generation # handle.generation
    THEN nullptr
    ELSE buffers_[handle.index + 1].ptr

\* IsBufferValid(handle)
IsBufferValid(handle) ==
    IF ~IsValid(handle)
    THEN FALSE
    ELSE IF handle.index >= Len(buffers_)
    THEN FALSE
    ELSE /\ buffers_[handle.index + 1].generation = handle.generation
         /\ buffers_[handle.index + 1].inUse

NextPool ==
    \/ AllocateTexture
    \/ ReleaseTexture
    \/ AllocateBuffer
    \/ ReleaseBuffer

SpecPool == Init /\ [][NextPool]_vars

---------------------------------------------------------------------------
(* Properties *)

\* slots with a submission the GPU has not finished
Pending == {gpuQueue[i] : i \in DOMAIN gpuQueue}

RebuildResults == {"VK_ERROR_OUT_OF_DATE_KHR", "VK_SUBOPTIMAL_KHR"}

ZeroExtent(e) == e.width = 0 \/ e.height = 0

\* number of live objects of one kind
LiveCount(kind) == Cardinality({h \in live : h[1] = kind})

\* C1: the number of submitted command buffers whose fence is still
\* unsignaled never exceeds MAX_FRAMES_IN_FLIGHT.
C1_FrameInFlightBound ==
    Cardinality({i \in DOMAIN gpuQueue : ~inFlightFences[gpuQueue[i]]})
        <= MAX_FRAMES_IN_FLIGHT

\* both slots are in flight at once
C1_Witness ==
    /\ Len(gpuQueue) = MAX_FRAMES_IN_FLIGHT
    /\ \A s \in Slots : ~inFlightFences[s]

\* C2: a command buffer is reset or re-recorded only while no submission of
\* it is pending, and the reset of slot i comes after slot i's fence was seen
\* signaled in the same call.
C2_ResetAfterFence ==
    [][/\ \A s \in Slots :
            commandBuffers'[s] # commandBuffers[s] => s \notin Pending
       /\ (pc = "reset" /\ pc' = "record")
            => inFlightFences[currentFrame] /\ currentFrame \notin Pending]_vars

\* slot 0 is being re-recorded, after an earlier use, while slot 1 is pending
C2_Witness ==
    /\ pc = "record"
    /\ currentFrame = 0
    /\ commandBuffers[0].state = "initial"
    /\ gpuQueue = <<1>>

\* C3: the CPU writes slot i's uniform memory only between slot i's fence
\* wait and slot i's submit, when no pending command buffer reads slot i's
\* descriptor sets.
C3_UniformWriteNotRacing ==
    [][\A s \in Slots :
          (\/ uniformBuffersMapped'[s] # uniformBuffersMapped[s]
           \/ (pc = "update" /\ pc' = "reset" /\ s = currentFrame))
          => /\ pc = "update" /\ s = currentFrame
             /\ inFlightFences[s]
             /\ \A q \in Pending : commandBuffers[q].descriptorSlot # s]_vars

\* slot 0's uniforms were rewritten while the GPU still runs slot 1
C3_Witness ==
    /\ pc = "reset"
    /\ currentFrame = 0
    /\ commandBuffers[0].state = "executable"
    /\ gpuQueue = <<1>>
    /\ uniformBuffersMapped[0] # << >>

C5_AcquireFailureTouchesNothing ==
    [][(\/ pc = "idle" /\ pc' = "acquire"
        \/ pc = "acquire" /\ pc' = "acquired"
        \/ pc = "acquired" /\ result # "VK_SUCCESS" /\ pc' # pc)
          => /\ currentFrame' = currentFrame
             /\ inFlightFences'[currentFrame] = inFlightFences[currentFrame]
             /\ commandBuffers'[currentFrame] = commandBuffers[currentFrame]
             /\ uniformBuffersMapped'[currentFrame]
                   = uniformBuffersMapped[currentFrame]
             /\ (pc = "acquired" => pc' = "idle")]_vars

\* an acquire on slot 1 failed with another error, slot 1 having been used
C5_Witness ==
    /\ pc = "acquired"
    /\ result = "VK_ERROR_SURFACE_LOST_KHR"
    /\ currentFrame = 1
    /\ commandBuffers[1].state = "executable"

\* C6: after a Suboptimal or Out-of-Date acquire the call rebuilds and
\* returns: no uniform update, no recording, no submit, no present.
C6_SuboptimalAcquireSkipsFrame ==
    [][(pc = "acquired" /\ result \in RebuildResults /\ pc' # pc)
          => /\ pc' = "idle"
             /\ generation' = generation + 1
             /\ uniformBuffersMapped' = uniformBuffersMapped
             /\ commandBuffers' = commandBuffers
             /\ gpuQueue' = gpuQueue
             /\ (acquired' = acquired \/ swapChain' # swapChain)]_vars

\* a call returned after a Suboptimal acquire: the slot's semaphore was
\* signaled by the acquire and nothing was submitted to consume it
C6_Witness ==
    /\ pc = "idle"
    /\ generation > 1
    /\ imageAvailableSemaphores[currentFrame]
    /\ currentFrame \notin Pending

\* C7: a rebuild after present runs with the frame submitted and the present
\* issued; the call still advances currentFrame and the submission stays.
C7_PresentRebuildAfterSubmit ==
    [][(pc = "presented" /\ result \in RebuildResults /\ pc' # pc)
          => /\ generation' = generation + 1
             /\ commandBuffers[currentFrame].state = "executable"
             /\ (currentFrame \in Pending \/ inFlightFences[currentFrame])
             /\ imageIndex \notin acquired
             /\ currentFrame' = (currentFrame + 1) % MAX_FRAMES_IN_FLIGHT
             /\ gpuQueue' = gpuQueue
             /\ commandBuffers' = commandBuffers
             /\ inFlightFences' = inFlightFences
             /\ pc' = "idle"]_vars

\* present of a frame that is still on the GPU came back Out-of-Date
C7_Witness ==
    /\ pc = "presented"
    /\ result = "VK_ERROR_OUT_OF_DATE_KHR"
    /\ currentFrame \in Pending

\* kinds of objects a build of the swapchain resource set creates
SwapchainKinds ==
    {"swapchain", "imageViews", "renderPass", "framebuffers", "pipelineLayout",
     "graphicsPipeline", "clearColorPipeline", "clearColorPipelineLayout",
     "clearColorVertexBuffer", "skyboxPipeline", "skyboxPipelineLayout",
     "skyboxDescriptorSetLayout"}

\* C8: between render() calls, whatever the number of rebuilds, exactly one
\* swapchain, one render pass and ImageCount image views and framebuffers are
\* live, and no other object a rebuild creates is live twice.
C8_RebuildBalanced ==
    pc = "idle"
      => /\ LiveCount("swapchain") = 1
         /\ LiveCount("renderPass") = 1
         /\ LiveCount("imageViews") * ImageCount = ImageCount
         /\ LiveCount("framebuffers") * ImageCount = ImageCount
         /\ \A k \in SwapchainKinds : LiveCount(k) <= 1

\* C9: while the stored extent has a zero side (the last rebuild saw a
\* minimized window) every swapchain-dependent resource is null; and once a
\* later rebuild has built a swapchain, the resource set held is all of that
\* build.
C9_ZeroExtentLeavesAbsent ==
    /\ ZeroExtent(swapChainExtent)
         => /\ swapChain = VK_NULL_HANDLE
            /\ swapChainImageViews = VK_NULL_HANDLE
            /\ renderPass = VK_NULL_HANDLE
            /\ swapChainFramebuffers = VK_NULL_HANDLE
            /\ graphicsPipeline = VK_NULL_HANDLE
            /\ clearColorData.pipeline = VK_NULL_HANDLE
            /\ skyboxData.pipeline = VK_NULL_HANDLE
    /\ (~ZeroExtent(swapChainExtent) /\ swapChain = generation /\ assets.mainShader)
         => /\ swapChainImageViews = generation
            /\ renderPass = generation
            /\ swapChainFramebuffers = generation
            /\ graphicsPipeline = generation
            /\ {Handle("swapchain", generation), Handle("imageViews", generation),
                Handle("renderPass", generation), Handle("framebuffers", generation),
                Handle("graphicsPipeline", generation)} \subseteq live

\* C10: while the stored extent has a zero side no frame gets past the
\* acquire: no uniform update, no recording, no submit, no present.
C10_NoFrameWhilePaused ==
    ZeroExtent(swapChainExtent)
      => /\ pc \in {"idle", "acquire", "acquired", "update"}
         /\ \A s \in Slots : commandBuffers[s].state = "executable"
               => ~ZeroExtent(commandBuffers[s].extent)

\* C11: every vkCreateSwapchainKHR call of a rebuild is given the swapchain
\* held at that moment as oldSwapchain, and before the destructor runs a
\* swapchain is destroyed only in a
\* step that created its replacement: the one destroyed is the one passed as
\* oldSwapchain, and the new one is held and live.
C11_OldSwapchainAfterCreate ==
    [][/\ (generation' # generation /\ ~ZeroExtent(swapChainExtent'))
            => oldSwapChain' = swapChain
       /\ \A h \in live \ live' :
            (h[1] = "swapchain" /\ pc' # "destroyed")
              => /\ h[2] = oldSwapChain'
                 /\ swapChain' = generation'
                 /\ swapChain' # swapChain
                 /\ Handle("swapchain", swapChain') \in live']_vars

\* a creation failed with the init() swapchain passed as oldSwapchain (it is
\* still held and live), or it succeeded and the init() swapchain is destroyed
C11_Witness ==
    /\ generation = 3
    /\ swapChain = 3
    /\ oldSwapChain = 1
    /\ Handle("swapchain", 1) \notin live
    /\ Handle("swapchain", 3) \in live

\* position of an object kind in the teardown order framebuffers, pipelines,
\* pipeline layouts, render pass, image views, swapchain (0: not in the list)
TeardownRank(kind) ==
    CASE kind = "framebuffers" -> 1
      [] kind \in {"graphicsPipeline", "clearColorPipeline", "skyboxPipeline"} -> 2
      [] kind \in {"pipelineLayout", "clearColorPipelineLayout",
                   "skyboxPipelineLayout"} -> 3
      [] kind = "renderPass" -> 4
      [] kind = "imageViews" -> 5
      [] kind = "swapchain" -> 6
      [] OTHER -> 0

\* <<a, b>>: an object of kind a is created from, and refers to, one of kind b
DependsOn ==
    {<<"imageViews", "swapchain">>,
     <<"framebuffers", "imageViews">>, <<"framebuffers", "renderPass">>,
     <<"graphicsPipeline", "pipelineLayout">>, <<"graphicsPipeline", "renderPass">>,
     <<"clearColorPipeline", "clearColorPipelineLayout">>,
     <<"clearColorPipeline", "renderPass">>,
     <<"skyboxPipeline", "skyboxPipelineLayout">>,
     <<"skyboxPipeline", "renderPass">>,
     <<"skyboxPipelineLayout", "skyboxDescriptorSetLayout">>}

WaitsIdleFirst(calls) == calls[1][1] = "vkDeviceWaitIdle"

InListedOrder(calls) ==
    \A i, j \in DOMAIN calls :
        (i < j /\ TeardownRank(calls[i][1]) > 0 /\ TeardownRank(calls[j][1]) > 0)
          => TeardownRank(calls[i][1]) <= TeardownRank(calls[j][1])

DependentsFirst(calls) ==
    \A i, j \in DOMAIN calls :
        <<calls[i][1], calls[j][1]>> \in DependsOn => i < j

C13_RebuildWaitsIdle ==
    [][(generation' # generation /\ swapChain' # swapChain)
          => /\ gpuQueue = << >>
             /\ \A s \in Pending :
                  /\ Handle("swapchain", commandBuffers[s].framebuffer) \in live
                       => Handle("swapchain", commandBuffers[s].framebuffer) \in live'
                  /\ commandBuffers[s].framebuffer = swapChainFramebuffers
                       => swapChainFramebuffers' = swapChainFramebuffers
                  /\ commandBuffers[s].renderPass = renderPass
                       => renderPass' = renderPass
                  /\ commandBuffers[s].graphicsPipeline = graphicsPipeline
                       => graphicsPipeline' = graphicsPipeline]_vars

\* C14: the aspect ratio a uniform update writes equals height/width when the
\* stored transform is ROTATE_90 or ROTATE_270 and width/height otherwise, for
\* every extent without a zero side; for ROTATE_90 and 1080x1920 it is
\* 1920/1080.
C14_AspectRatioFollowsTransform ==
    [][(pc = "update" /\ pc' = "reset" /\ ~ZeroExtent(swapChainExtent))
          => LET written == uniformBuffersMapped'[currentFrame]
             IN  /\ written[2] # 0
                 /\ IF currentTransform \in {"ROTATE_90", "ROTATE_270"}
                    THEN written[1] * swapChainExtent.width
                           = written[2] * swapChainExtent.height
                    ELSE written[1] * swapChainExtent.height
                           = written[2] * swapChainExtent.width
                 /\ (currentTransform = "ROTATE_90"
                       /\ swapChainExtent = Extent(1080, 1920))
                      => written[1] * 1080 = written[2] * 1920]_vars

\* a uniform update under ROTATE_90 and 1080x1920, after a rebuild
C14_Witness ==
    /\ pc = "reset"
    /\ generation > 1
    /\ currentTransform = "ROTATE_90"
    /\ swapChainExtent = Extent(1080, 1920)
    /\ uniformBuffersMapped[currentFrame] = <<1920, 1080>>

\* C15: every recorded frame holds exactly one background draw, the skybox
\* draw or the flat-color draw (one field holds the draw, so never both); the
\* skybox is drawn only if the cubemap was loaded at init, and the flat color
\* is drawn if it was not.
C15_ExactlyOneBackground ==
    \A s \in Slots :
        commandBuffers[s].state = "executable"
          => /\ commandBuffers[s].background \in {"skybox", "clearColor"}
             /\ commandBuffers[s].background = "skybox" => assets.skybox = "valid"
             /\ assets.skybox = "none" => commandBuffers[s].background = "clearColor"

\* C16: a uniform update for slot i writes the slot-i mapping of the object and
\* (when the skybox has uniforms) of the skybox, and leaves the mappings of every
\* other slot as they were.
C16_UniformWriteOwnSlotOnly ==
    [][(pc = "update" /\ pc' = "reset")
          => /\ uniformBuffersMapped'[currentFrame]
                  = AspectRatio(swapChainExtent, currentTransform)
             /\ \A j \in Slots \ {currentFrame} :
                  /\ uniformBuffersMapped'[j] = uniformBuffersMapped[j]
                  /\ skyboxUniformBuffersMapped'[j] = skyboxUniformBuffersMapped[j]]_vars

\* slot 1 was written after a rebuild changed the aspect ratio: slot 0 still
\* holds what its own update wrote, for the object and for the skybox
C16_Witness ==
    /\ pc = "reset"
    /\ currentFrame = 1
    /\ uniformBuffersMapped[0] # << >>
    /\ uniformBuffersMapped[1] # uniformBuffersMapped[0]
    /\ skyboxUniformBuffersMapped[0] = uniformBuffersMapped[0]
    /\ skyboxUniformBuffersMapped[1] = uniformBuffersMapped[1]

\* C17: from init() to the destructor the resource table has one entry per
\* mesh drawable of the scene (the skybox drawable has none), and every entry
\* holds a vertex buffer, an index buffer, MAX_FRAMES_IN_FLIGHT uniform
\* buffers, as many mappings and as many descriptor sets; the scene has one
\* mesh drawable, so the table has exactly one entry.
C17_ResourceTableShape ==
    pc # "destroyed"
      => /\ Len(renderObjects)
              = Cardinality({i \in DOMAIN createScene :
                                createScene[i] = "MeshRenderer"})
         /\ Len(renderObjects) = 1
         /\ \A j \in DOMAIN renderObjects :
              /\ renderObjects[j].vertexBuffer # VK_NULL_HANDLE
              /\ renderObjects[j].indexBuffer # VK_NULL_HANDLE
              /\ Len(renderObjects[j].uniformBuffers) = MAX_FRAMES_IN_FLIGHT
              /\ Len(renderObjects[j].uniformBuffersMapped) = MAX_FRAMES_IN_FLIGHT
              /\ Len(renderObjects[j].descriptorSets) = MAX_FRAMES_IN_FLIGHT
              /\ \A k \in 1 .. MAX_FRAMES_IN_FLIGHT :
                   /\ renderObjects[j].uniformBuffers[k] # VK_NULL_HANDLE
                   /\ renderObjects[j].uniformBuffersMapped[k] # VK_NULL_HANDLE
                   /\ renderObjects[j].descriptorSets[k] # VK_NULL_HANDLE

\* a frame was recorded in a scene that also has a skybox drawable
C17_Witness ==
    /\ Len(createScene) = 2
    /\ Len(renderObjects) = 1
    /\ commandBuffers[0].state = "executable"
    /\ generation > 1

\* C18: a missing shader skips its own pipeline only: whenever the swapchain
\* held is the one of the latest build (init() or a rebuild that created one),
\* the framebuffers are of that build, and so is every pipeline whose own
\* shaders are present.
C18_MissingShaderSkipsOnlyItsPipeline ==
    swapChain = generation
      => /\ swapChainFramebuffers = generation
         /\ assets.mainShader => graphicsPipeline = generation
         /\ assets.clearShader => clearColorData.pipeline = generation
         /\ (assets.skybox = "valid" /\ assets.skyboxShader)
              => skyboxData.pipeline = generation

\* C19: no render() call can wait forever, given that the GPU finishes what
\* was submitted: whenever the call is at the fence wait the slot's fence is
\* signaled or a pending submission will signal it, and whenever it is at the
\* acquire (timeout UINT64_MAX) the swapchain has an image left to hand out.
C19_RenderNeverStuck ==
    /\ pc = "idle" => (inFlightFences[currentFrame] \/ currentFrame \in Pending)
    /\ pc = "acquire" => Images \ acquired # {}

\* C20: currentFrame stays in [0, MAX_FRAMES_IN_FLIGHT); it changes only at
\* the end of a call that submitted, by one step modulo MAX_FRAMES_IN_FLIGHT;
\* and within a call the fence, the two semaphores, the command buffer, the
\* uniform region and the descriptor sets touched are those of slot
\* currentFrame.
C20_OneSlotPerCall ==
    [][/\ currentFrame \in Slots /\ currentFrame' \in Slots
       /\ currentFrame' # currentFrame
            => /\ pc = "presented"
               /\ commandBuffers[currentFrame].state = "executable"
               /\ currentFrame' = (currentFrame + 1) % MAX_FRAMES_IN_FLIGHT
       /\ (pc = "presented" /\ pc' = "idle") => currentFrame' # currentFrame
       /\ pc' # pc =>
            \A j \in Slots \ {currentFrame} :
               /\ inFlightFences'[j] = inFlightFences[j]
               /\ imageAvailableSemaphores'[j] = imageAvailableSemaphores[j]
               /\ renderFinishedSemaphores'[j] = renderFinishedSemaphores[j]
               /\ commandBuffers'[j] = commandBuffers[j]
               /\ uniformBuffersMapped'[j] = uniformBuffersMapped[j]
       /\ (pc = "record" /\ pc' = "submit")
            => commandBuffers'[currentFrame].descriptorSlot = currentFrame
       /\ (pc = "submit" /\ pc' = "present")
            => /\ gpuQueue' = Append(gpuQueue, currentFrame)
               /\ ~inFlightFences[currentFrame]
               /\ imageAvailableSemaphores[currentFrame]
       /\ (pc = "present" /\ pc' = "presented")
            => ~renderFinishedSemaphores'[currentFrame]]_vars

\* the call on slot 1 is about to present; the GPU has finished its frame and
\* signaled slot 1's render-finished semaphore, slot 0's is consumed
C20_Witness ==
    /\ pc = "present"
    /\ currentFrame = 1
    /\ renderFinishedSemaphores[1]
    /\ ~renderFinishedSemaphores[0]
    /\ commandBuffers[0].state = "executable"

\* C21: a slot whose fence is unsignaled either has a pending submission that
\* will signal it, or is the current slot of a call that acquired an image
\* successfully, has reset the fence and is on its way to the submit; no slot
\* is left with an unsignaled fence and nothing pending.
C21_FenceResetThenSubmit ==
    \A s \in Slots :
        ~inFlightFences[s]
          => \/ s \in Pending
             \/ /\ pc \in {"record", "submit"}
                /\ s = currentFrame
                /\ result = "VK_SUCCESS"
                /\ imageIndex \in acquired

\* slot 1's fence was reset for re-recording after a rebuild while slot 0's
\* submission is pending
C21_Witness ==
    /\ pc = "submit"
    /\ currentFrame = 1
    /\ ~inFlightFences[1]
    /\ gpuQueue = <<0>>
    /\ generation > 1

\* C22: for every submitted frame, the signal that slot i's submission waits
\* for is the image-available signal of the acquire that handed out the
\* frame's image (the semaphore carried no earlier signal when that acquire
\* was called), the GPU runs the frame only with that signal present, and the
\* present waits on slot i's render-finished semaphore, which the frame's
\* submission has signaled or will signal.
C22_GpuTimelineOrder ==
    [][/\ (pc = "acquire" /\ pc' = "acquired" /\ result' = "VK_SUCCESS")
            => ~imageAvailableSemaphores[currentFrame]
       /\ (pc = "submit" /\ pc' = "present")
            => imageAvailableSemaphores[currentFrame]
       /\ (gpuQueue # << >> /\ gpuQueue' = Tail(gpuQueue))
            => imageAvailableSemaphores[Head(gpuQueue)]
       /\ (pc = "present" /\ pc' = "presented")
            => (currentFrame \in Pending \/ renderFinishedSemaphores[currentFrame])]_vars


\* the background pipeline recordCommandBuffer would bind now, with its kind
BoundBackground ==
    LET cb == recordCommandBuffer(currentFrame)
    IN  IF cb.background = "skybox"
        THEN {Handle("skyboxPipeline", skyboxData.pipeline)}
        ELSE IF cb.background = "clearColor"
        THEN {Handle("clearColorPipeline", clearColorData.pipeline)}
        ELSE {}

\* C23: whenever render() is about to record a frame, the main object pipeline
\* and the background pipeline it binds (skybox or flat colour, if one is
\* drawn) are built handles that are still live
C23_RecordedPipelinesReady ==
    pc = "record"
      => /\ graphicsPipeline > VK_NULL_HANDLE
         /\ Handle("graphicsPipeline", graphicsPipeline) \in live
         /\ \A h \in BoundBackground : h[2] > VK_NULL_HANDLE /\ h \in live

\* the pipelines and the framebuffers the renderer holds, by generation
HeldAgainstRenderPass(gp, cc, sky, fb) ==
    {h \in {gp, cc.pipeline, sky.pipeline, fb} : h > VK_NULL_HANDLE}

\* C24: after every rebuild that returns, each held pipeline (main object,
\* skybox, flat colour) and the framebuffers were created against the render
\* pass the renderer holds now
C24_RebuiltAgainstHeldRenderPass ==
    [][generation' # generation
         => \A h \in HeldAgainstRenderPass(graphicsPipeline', clearColorData',
                                           skyboxData', swapChainFramebuffers') :
                h = renderPass']_vars

\* createGraphicsPipeline: the descriptor set layout of the main pipeline, made
\* once by init() and used again, not made again, by every rebuild
descriptorSetLayout == IF assets.mainShader THEN 1 ELSE Indeterminate

\* C25: after the build and after every rebuild, each of the main, flat-colour
\* and skybox pipelines has its pipeline, its pipeline layout and its
\* descriptor set layout or vertex buffer all from one build, or has none
C25_PipelineBuildsAllOrNothing ==
    /\ graphicsPipeline = pipelineLayout
    /\ graphicsPipeline > VK_NULL_HANDLE => descriptorSetLayout > VK_NULL_HANDLE
    /\ graphicsPipeline <= VK_NULL_HANDLE => descriptorSetLayout <= VK_NULL_HANDLE
    /\ clearColorData.pipeline = clearColorData.pipelineLayout
    /\ clearColorData.pipeline = clearColorData.vertexBuffer
    /\ skyboxData.pipeline = skyboxData.pipelineLayout
    /\ skyboxData.pipeline = skyboxData.descriptorSetLayout

C25_Witness ==
    /\ pc = "idle"
    /\ generation = 2
    /\ graphicsPipeline = 2
    /\ clearColorData.pipeline = 2
    /\ assets.skybox = "valid"
    /\ skyboxData.pipeline = VK_NULL_HANDLE

\* C26: a rebuild leaves the per-object resource table (its length and every
\* entry's buffers, mappings and descriptor sets, which are the allocations of
\* the descriptor pool), the sync objects and the command buffers as they were
C26_RebuildKeepsObjectResources ==
    [][generation' # generation
         => /\ renderObjects' = renderObjects
            /\ uniformBuffersMapped' = uniformBuffersMapped
            /\ skyboxUniformBuffersMapped' = skyboxUniformBuffersMapped
            /\ inFlightFences' = inFlightFences
            /\ imageAvailableSemaphores' = imageAvailableSemaphores
            /\ renderFinishedSemaphores' = renderFinishedSemaphores
            /\ commandBuffers' = commandBuffers]_vars

C26_Witness ==
    /\ pc = "idle"
    /\ generation = 2
    /\ renderPass = 2
    /\ currentFrame = 1
    /\ gpuQueue = <<0>>
    /\ commandBuffers[0].state = "executable"
    /\ Len(renderObjects) = 1

\* the mesh drawables of the scene
MeshDrawables == {i \in DOMAIN gameObjects : gameObjects[i] = "MeshRenderer"}

\* the j-th mesh drawable of the scene, counting from 1
NthMesh(j) ==
    CHOOSE i \in MeshDrawables :
        Cardinality({k \in MeshDrawables : k <= i}) = j

\* the create* calls of init() that have returned
Created ==
    CASE pc = "createVertexBuffer" -> {}
      [] pc = "createIndexBuffer" -> {"vertexBuffer"}
      [] pc = "createUniformBuffers" -> {"vertexBuffer", "indexBuffer"}
      [] pc \in {"createDescriptorPool", "createDescriptorSets"}
           -> {"vertexBuffer", "indexBuffer", "uniformBuffers"}
      [] OTHER -> {"vertexBuffer", "indexBuffer", "uniformBuffers",
                   "descriptorSets"}

\* the draws of a command buffer made with the main pipeline, in order
MainDraws(cb) == SelectSeq(cb.draws, LAMBDA d : d.pipeline = "main")

\* C27: in every step that touches the table, entry j belongs to the j-th mesh
\* drawable of the scene: the table has one entry per mesh drawable and none
\* for a skybox drawable; entry j holds the vertex buffer, the index buffer and
\* the descriptor sets made for that drawable and MAX_FRAMES_IN_FLIGHT uniform
\* buffers; the uniform update writes that drawable's model matrix through
\* entry j; and the j-th mesh draw draws that drawable with entry j's buffers
\* and descriptor set
C27_TableEntryIsNthMesh ==
    /\ "vertexBuffer" \in Created
         => /\ Len(renderObjects) = Cardinality(MeshDrawables)
            /\ \A j \in DOMAIN renderObjects :
                 renderObjects[j].vertexBuffer = NthMesh(j)
    /\ "indexBuffer" \in Created
         => \A j \in DOMAIN renderObjects :
              renderObjects[j].indexBuffer = NthMesh(j)
    /\ "uniformBuffers" \in Created
         => \A j \in DOMAIN renderObjects :
              /\ Len(renderObjects[j].uniformBuffers) = MAX_FRAMES_IN_FLIGHT
              /\ Len(renderObjects[j].uniformBuffersMapped) = MAX_FRAMES_IN_FLIGHT
    /\ "descriptorSets" \in Created
         => \A j \in DOMAIN renderObjects :
              renderObjects[j].descriptorSets
                 = [k \in 1 .. MAX_FRAMES_IN_FLIGHT |-> NthMesh(j)]
    /\ pc \in {"reset", "record", "submit"}
         => uniformModels[currentFrame]
               = {<<j, NthMesh(j)>> : j \in DOMAIN renderObjects}
    /\ \A s \in Slots :
         commandBuffers[s].state = "executable"
           => /\ Len(MainDraws(commandBuffers[s])) = Len(renderObjects)
              /\ \A j \in DOMAIN renderObjects :
                   LET d == MainDraws(commandBuffers[s])[j]
                   IN  /\ d.model = NthMesh(j)
                       /\ d.vertexBuffer = NthMesh(j)
                       /\ d.indexBuffer = NthMesh(j)
                       /\ d.descriptorSet = NthMesh(j)

\* a frame was recorded for a scene whose skybox drawable comes before its two
\* mesh drawables
C27_Witness ==
    /\ gameObjects = <<"SkyboxRenderer", "MeshRenderer", "MeshRenderer">>
    /\ Len(renderObjects) = 2
    /\ pc = "submit"
    /\ Len(commandBuffers[0].draws) >= 2

\* C28: in every recorded command buffer the background draw, if there is one,
\* is the first draw and every other draw is a mesh draw; the mesh draws follow
\* the table order, the j-th one with the vertex buffer and the index buffer
\* of entry j and entry j's descriptor set of the slot being recorded
C28_BackgroundThenMeshesInTableOrder ==
    \A s \in Slots :
        commandBuffers[s].state = "executable"
          => LET d == commandBuffers[s].draws
                 b == IF commandBuffers[s].background = "none" THEN 0 ELSE 1
             IN  /\ Len(d) = b + Len(renderObjects)
                 /\ b = 1 => d[1].pipeline = commandBuffers[s].background
                 /\ \A j \in DOMAIN renderObjects :
                      /\ d[b + j].pipeline = "main"
                      /\ d[b + j].vertexBuffer = renderObjects[j].vertexBuffer
                      /\ d[b + j].indexBuffer = renderObjects[j].indexBuffer
                      /\ d[b + j].slot = s
                      /\ d[b + j].descriptorSet
                            = renderObjects[j].descriptorSets[s + 1]

\* a frame with the skybox and two meshes was recorded
C28_Witness ==
    /\ gameObjects = <<"MeshRenderer", "SkyboxRenderer", "MeshRenderer">>
    /\ commandBuffers[0].state = "executable"
    /\ commandBuffers[0].background = "skybox"
    /\ Len(commandBuffers[0].draws) = 3

\* createDescriptorPool has returned
PoolCreated == pc \notin {"createVertexBuffer", "createIndexBuffer",
                          "createUniformBuffers", "createDescriptorPool"}

\* C29: the descriptor pool is created for (mesh drawables + skybox drawables)
\* * MAX_FRAMES_IN_FLIGHT sets and as many descriptors of each of the two
\* types, and the sets allocated by createDescriptorSets and
\* createSkyboxDescriptorSets never exceed that capacity
C29_PoolCapacityCoversAllocations ==
    PoolCreated
      => LET capacity ==
                 Cardinality({i \in DOMAIN gameObjects :
                                 gameObjects[i] \in {"MeshRenderer",
                                                     "SkyboxRenderer"}})
                   * MAX_FRAMES_IN_FLIGHT
         IN  /\ descriptorPool.maxSets = capacity
             /\ descriptorPool.uniformBuffers = capacity
             /\ descriptorPool.imageSamplers = capacity
             /\ descriptorPool.allocated <= descriptorPool.maxSets

\* both allocating calls have run for a scene with two skybox drawables and a
\* mesh, and the skybox sets were allocated
C29_Witness ==
    /\ gameObjects = <<"SkyboxRenderer", "MeshRenderer", "SkyboxRenderer">>
    /\ pc = "update"
    /\ skyboxData.hasTexture
    /\ descriptorPool.allocated = 2 * MAX_FRAMES_IN_FLIGHT

\* the index init() should report for the families at positions `with` of the
\* list: the lowest, counted from 0, or -1 when there is none
FirstFamily(with) ==
    IF with = {} THEN -1
    ELSE (CHOOSE i \in with : \A k \in with : i <= k) - 1

\* C30: the selection leaves in graphicsFamily the lowest index of a family
\* with graphics capability and in presentFamily the lowest index of a family
\* reporting present support
C30_FirstGraphicsFirstPresent ==
    pc = "idle"
      => /\ graphicsFamily
              = FirstFamily({i \in DOMAIN queueFamilies : queueFamilies[i].graphics})
         /\ presentFamily
              = FirstFamily({i \in DOMAIN queueFamilies : queueFamilies[i].present})

C33_OnlyStaleResultsRebuild ==
    [][/\ generation' # generation
            => /\ pc \in {"acquired", "presented"}
               /\ result \in RebuildResults
       /\ (pc = "acquired" /\ pc' # pc
              /\ result \notin RebuildResults \cup {"VK_SUCCESS"})
            => /\ pc' = "idle"
               /\ swapVars' = swapVars
               /\ commandBuffers' = commandBuffers
               /\ gpuQueue' = gpuQueue
               /\ inFlightFences' = inFlightFences
               /\ acquired' = acquired
               /\ currentFrame' = currentFrame]_vars

\* vkAcquireNextImageKHR has failed with VK_ERROR_SURFACE_LOST_KHR on a
\* swapchain an earlier rebuild created, with a frame still on the queue
C33_Witness ==
    /\ pc = "acquired"
    /\ result = "VK_ERROR_SURFACE_LOST_KHR"
    /\ generation = 2
    /\ swapChain = 2
    /\ gpuQueue # << >>


\* C34: init and every rebuild that returns leave one image view and one
\* framebuffer per image of the held swapchain, the framebuffers made from the
\* held image views and the held render pass, so that the framebuffer an
\* acquired image index selects exists
C34_FramebuffersMatchHeldSwapChain ==
    pc # "destroyed" /\ swapChain # VK_NULL_HANDLE
        => /\ swapChainImageViews = swapChain
           /\ swapChainFramebuffers = swapChainImageViews
           /\ swapChainFramebuffers = renderPass
           /\ Handle("framebuffers", swapChainFramebuffers) \in live


\* C35: in the frame render() has just recorded, every draw runs with the
\* viewport and scissor of the swapChainExtent stored by the most recent
\* rebuild, and the slot's projection has the aspect ratio of that extent under
\* the stored transform
C35_DrawsUseCurrentExtent ==
    pc = "submit"
        => LET cb == commandBuffers[currentFrame]
           IN  /\ \A k \in DOMAIN cb.draws :
                     Viewports(cb, cb.draws[k]) = {swapChainExtent}
               /\ uniformBuffersMapped[currentFrame] =
                     AspectRatio(swapChainExtent, currentTransform)


\* C36: the image-available semaphore of the current slot carries no signal
\* when render() passes it to vkAcquireNextImageKHR, also in the render() that
\* follows a suboptimal acquire and its early return, and no image is held
\* acquired and unpresented when render() returns
C36_AcquireSemaphoreUnsignaled ==
    /\ pc = "acquire" => ~imageAvailableSemaphores[currentFrame]
    /\ pc = "idle" => acquired = {}


\* C37: the stored swapChainExtent is the extent the held swapchain and the
\* held framebuffers were created with, and a step changes the stored extent or
\* the stored transform only by creating the swapchain they describe: a rebuild
\* that returns early stores no geometry
C37_StoredGeometryIsBuiltGeometry ==
    [][/\ swapChain' # VK_NULL_HANDLE
            => /\ swapChainExtent' = builtWith'.imageExtent
               /\ swapChainExtent' = builtWith'.framebufferExtent
       /\ (swapChainExtent' # swapChainExtent
              \/ currentTransform' # currentTransform)
            => /\ swapChain' # swapChain
               /\ swapChain' = generation']_vars


Superseded ==
    {r \in issued : \E later \in issued : /\ later.kind = r.kind
                                          /\ later.handle.index = r.handle.index
                                          /\ later.ptr > r.ptr}

\* C39: once a texture or buffer slot has been released and allocated again,
\* every handle returned for an earlier allocation of the slot fails
\* IsTextureValid / IsBufferValid and resolves to null in GetTexturePtr /
\* GetBufferPtr; no returned handle resolves to the pointer of another
\* allocation
C39_StaleHandleRejected ==
    /\ \A r \in Superseded :
          IF r.kind = "texture"
          THEN ~IsTextureValid(r.handle) /\ GetTexturePtr(r.handle) = nullptr
          ELSE ~IsBufferValid(r.handle) /\ GetBufferPtr(r.handle) = nullptr
    /\ \A r \in issued :
          IF r.kind = "texture"
          THEN GetTexturePtr(r.handle) \in {nullptr, r.ptr}
          ELSE GetBufferPtr(r.handle) \in {nullptr, r.ptr}

\* a texture slot and a buffer slot were each released and allocated again:
\* the new handles resolve to the new pointers
C39_Witness ==
    /\ \E r \in Superseded : r.kind = "texture"
    /\ \E r \in Superseded : r.kind = "buffer"
    /\ \E r \in issued \ Superseded :
          r.kind = "texture" /\ IsTextureValid(r.handle)
             /\ GetTexturePtr(r.handle) = r.ptr /\ r.handle.generation = 1
    /\ \E r \in issued \ Superseded :
          r.kind = "buffer" /\ IsBufferValid(r.handle)
             /\ GetBufferPtr(r.handle) = r.ptr /\ r.handle.generation = 1

\* handles a caller can forge or hold: every index up to one past the slots in
\* use and the invalid one, with every generation reached
Handles ==
    [index : (0 .. MaxAllocations) \cup {InvalidValue},
     generation : 0 .. MaxAllocations]

\* C40: for every handle, GetTexturePtr (GetBufferPtr) returns a pointer only
\* if IsTextureValid (IsBufferValid) holds for it: a released handle whose slot
\* was not allocated again resolves to null
C40_PointerOnlyIfValid ==
    \A handle \in Handles :
        /\ GetTexturePtr(handle) # nullptr => IsTextureValid(handle)
        /\ GetBufferPtr(handle) # nullptr => IsBufferValid(handle)

====
